---- MODULE Spec2Model ----
(***************************************************************************)
(* Verification model of the diff viewer (AgentDiffView), its unified-diff *)
(* splitter, the task-id comparator and the sub-chat store of 1code.       *)
(*                                                                         *)
(* Texts are TLA+ strings; TLC evaluates Len, SubSeq and \o on them, so    *)
(* the string functions of the source are computed character by character. *)
(***************************************************************************)
EXTENDS Integers, Sequences, FiniteSets, TLC

(***************************************************************************)
(* JavaScript string primitives used by the source.                        *)
(***************************************************************************)
CharAt(s, i) == SubSeq(s, i, i)

StartsWith(s, p) == Len(s) >= Len(p) /\ SubSeq(s, 1, Len(p)) = p

EndsWith(s, p) == Len(s) >= Len(p) /\ SubSeq(s, Len(s) - Len(p) + 1, Len(s)) = p

Includes(s, p) == \E i \in 1..(Len(s) - Len(p) + 1) : SubSeq(s, i, i + Len(p) - 1) = p

\* s.slice(n): the text from 0-based offset n on
Slice(s, n) == SubSeq(s, n + 1, Len(s))

IsSpace(c) == c \in {" ", "\n", "\r", "\t"}

RECURSIVE TrimStart(_)
TrimStart(s) == IF Len(s) > 0 /\ IsSpace(CharAt(s, 1)) THEN TrimStart(Slice(s, 1)) ELSE s

RECURSIVE TrimEnd(_)
TrimEnd(s) ==
  IF Len(s) > 0 /\ IsSpace(CharAt(s, Len(s))) THEN TrimEnd(SubSeq(s, 1, Len(s) - 1)) ELSE s

Trim(s) == TrimEnd(TrimStart(s))

\* s.split("\n")
RECURSIVE SplitLines(_)
SplitLines(s) ==
  IF \E i \in 1..Len(s) : CharAt(s, i) = "\n"
    THEN LET i == CHOOSE i \in 1..Len(s) :
                    CharAt(s, i) = "\n" /\ \A j \in 1..(i - 1) : CharAt(s, j) # "\n"
         IN  <<SubSeq(s, 1, i - 1)>> \o SplitLines(Slice(s, i))
    ELSE <<s>>

\* lines.join("\n")
RECURSIVE JoinLines(_)
JoinLines(ls) ==
  IF Len(ls) = 0 THEN ""
  ELSE IF Len(ls) = 1 THEN ls[1]
  ELSE ls[1] \o "\n" \o JoinLines(Tail(ls))

\* s.replace(/\r\n/g, "\n")
RECURSIVE ReplaceCRLF(_)
ReplaceCRLF(s) ==
  IF Includes(s, "\r\n")
    THEN LET i == CHOOSE i \in 1..(Len(s) - 1) :
                    /\ SubSeq(s, i, i + 1) = "\r\n"
                    /\ \A j \in 1..(i - 1) : SubSeq(s, j, j + 1) # "\r\n"
         IN  SubSeq(s, 1, i - 1) \o "\n" \o ReplaceCRLF(Slice(s, i + 1))
    ELSE s

IsDigit(c) == c \in {"0", "1", "2", "3", "4", "5", "6", "7", "8", "9"}

DigitChars == "0123456789abcdefghijklmnopqrstuvwxyz"

\* Number.prototype.toString(10) of a natural number
RECURSIVE NatToString(_)
NatToString(n) ==
  IF n < 10 THEN CharAt(DigitChars, n + 1)
  ELSE NatToString(n \div 10) \o CharAt(DigitChars, (n % 10) + 1)

\* runs of consecutive character codes: <<characters, code of the first>>
CodeRuns ==
  << <<" !", 32>>, <<"#$%&", 35>>, <<"()*+,-./0123456789:;<=>?@", 40>>,
     <<"ABCDEFGHIJKLMNOPQRSTUVWXYZ", 65>>, <<"_", 95>>,
     <<"abcdefghijklmnopqrstuvwxyz", 97>>, <<"\t\n", 9>>, <<"\r", 13>> >>

\* str.charCodeAt(i) of a one-character string
CharCodes ==
  [c \in UNION {{CharAt(CodeRuns[k][1], i) : i \in 1..Len(CodeRuns[k][1])} :
                 k \in 1..Len(CodeRuns)} |->
     LET k == CHOOSE k \in 1..Len(CodeRuns) : Includes(CodeRuns[k][1], c)
         i == CHOOSE i \in 1..Len(CodeRuns[k][1]) : CharAt(CodeRuns[k][1], i) = c
     IN  CodeRuns[k][2] + i - 1]

charCodeAt(c) == CharCodes[c]

(***************************************************************************)
(* hashString: djb2 over the UTF-16 code units, read as an unsigned 32-bit *)
(* number and written in base 36.  hash << 5 wraps to 32 bits and the two  *)
(* additions are exact, so the value modulo 2^32 is 33 * hash + code.      *)
(* A 32-bit value is kept as two 16-bit halves <<hi, lo>>.                 *)
(***************************************************************************)
Half == 65536

\* 33 * h + code modulo 2^32
HashStep(h, code) ==
  << (h[1] * 33 + ((h[2] * 33 + code) \div Half)) % Half, (h[2] * 33 + code) % Half >>

\* the loop over the characters lo..hi of str, in order, starting from h.  The
\* range is halved and h is looked at first, so that TLC computes the hash so
\* far before it goes on and its evaluation does not nest once per character.
RECURSIVE HashLoop(_, _, _, _)
HashLoop(str, lo, hi, h) ==
  IF lo > hi \/ h = <<>> THEN h
  ELSE IF lo = hi THEN HashStep(h, charCodeAt(CharAt(str, lo)))
  ELSE HashLoop(str, ((lo + hi) \div 2) + 1, hi, HashLoop(str, lo, (lo + hi) \div 2, h))

\* quotient and remainder of a 32-bit value by 36
Div36(h) == << h[1] \div 36, ((h[1] % 36) * Half + h[2]) \div 36 >>

Mod36(h) == ((h[1] % 36) * Half + h[2]) % 36

\* (hash >>> 0).toString(36)
RECURSIVE ToBase36(_)
ToBase36(h) ==
  IF Div36(h) = <<0, 0>> THEN CharAt(DigitChars, Mod36(h) + 1)
  ELSE ToBase36(Div36(h)) \o CharAt(DigitChars, Mod36(h) + 1)


\* the block git prints for a one-line change of file p, with new line v
FileBlock(p, v) ==
  "diff --git a/" \o p \o " b/" \o p \o "\n--- a/" \o p \o "\n+++ b/" \o p
    \o "\n@@ -1 +1 @@\n-o\n+" \o v

\* the number of files of the long list
MaxFiles == 11

\* the per-file texts of the diffs the backend answers with, and those of the
\* long list
FileTexts ==
  {FileBlock(p, v) : p \in {"a", "b", "1", "10", "2"}, v \in {"1", "2"}}
    \cup {FileBlock("f" \o NatToString(i), "1") : i \in 1..MaxFiles}

\* hashString (lines 87-94): djb2 over the UTF-16 code units, kept in 32 bits,
\* printed in base 36
hashStringOf(str) == ToBase36(HashLoop(str, 1, Len(str), <<0, 5381>>))

\* the hashes of the file texts, computed once
HashOfFileText == [t \in FileTexts |-> hashStringOf(t)]

hashString(str) == IF str \in FileTexts THEN HashOfFileText[str] ELSE hashStringOf(str)

(***************************************************************************)
(* validateDiffHunk and splitUnifiedDiffByFile.                            *)
(***************************************************************************)
\* index of the first line with the prefix, 0 when there is none (findIndex + 1)
FindLine(lines, prefix) ==
  IF \E i \in 1..Len(lines) : StartsWith(lines[i], prefix)
    THEN CHOOSE i \in 1..Len(lines) :
           StartsWith(lines[i], prefix) /\ \A j \in 1..(i - 1) : ~StartsWith(lines[j], prefix)
    ELSE 0

\* the text after a maximal run of digits at the start of s
RECURSIVE SkipDigits(_)
SkipDigits(s) == IF Len(s) > 0 /\ IsDigit(CharAt(s, 1)) THEN SkipDigits(Slice(s, 1)) ELSE s

\* \d+(?:,\d+)? at the start of s: <<matched, rest>>
MatchRange(s) ==
  IF Len(s) = 0 \/ ~IsDigit(CharAt(s, 1)) THEN <<FALSE, s>>
  ELSE LET r1 == SkipDigits(s)
       IN  IF StartsWith(r1, ",") /\ Len(r1) > 1 /\ IsDigit(CharAt(r1, 2))
             THEN <<TRUE, SkipDigits(Slice(r1, 1))>>
             ELSE <<TRUE, r1>>

\* a pattern that takes every line starting with "@@ -" for a hunk header
hunkHeaderPrefixOnly(line) == StartsWith(line, "@@ -")

\* /^@@ -\d+(?:,\d+)? \+\d+(?:,\d+)? @@/.test(line)
hunkHeaderRegex(line) ==
  /\ StartsWith(line, "@@ -")
  /\ LET m1 == MatchRange(Slice(line, 4))
     IN  /\ m1[1]
         /\ StartsWith(m1[2], " +")
         /\ LET m2 == MatchRange(Slice(m1[2], 2))
            IN  m2[1] /\ StartsWith(m2[2], " @@")

validateDiffHunk(diffText) ==
  IF Len(diffText) = 0 \/ Len(Trim(diffText)) = 0 THEN FALSE
  ELSE
    LET lines        == SplitLines(diffText)
        minusLineIdx == FindLine(lines, "--- ")
        plusLineIdx  == FindLine(lines, "+++ ")
    IN  IF minusLineIdx = 0 \/ plusLineIdx = 0 THEN FALSE
        ELSE IF plusLineIdx <= minusLineIdx THEN FALSE
        ELSE IF \/ Includes(diffText, "new mode")
                \/ Includes(diffText, "old mode")
                \/ Includes(diffText, "rename from")
                \/ Includes(diffText, "rename to")
                \/ Includes(diffText, "Binary files")
               THEN TRUE
        ELSE \E i \in (plusLineIdx + 1)..Len(lines) : hunkHeaderRegex(lines[i])

\* pushCurrent: the block of the collected lines, kept when it shows a diff marker
KeepBlock(text) ==
  /\ text # ""
  /\ \/ StartsWith(text, "diff --git ")
     \/ StartsWith(text, "--- ")
     \/ StartsWith(text, "+++ ")
     \/ StartsWith(text, "Binary files ")
     \/ Includes(text, "\n+++ ")
     \/ Includes(text, "\nBinary files ")

\* a pushCurrent that keeps a block only for a new-file marker or a binary line
\* after its first line
pushCurrentMarkersOnly(blocks, current) ==
  LET text == Trim(JoinLines(current))
  IN  IF Includes(text, "\n+++ ") \/ Includes(text, "\nBinary files ")
        THEN Append(blocks, text)
        ELSE blocks

pushCurrent(blocks, current) ==
  LET text == Trim(JoinLines(current))
  IN  IF KeepBlock(text) THEN Append(blocks, text) ELSE blocks

RECURSIVE SplitBlocks(_, _, _, _)
SplitBlocks(lines, i, blocks, current) ==
  IF i > Len(lines) THEN pushCurrent(blocks, current)
  ELSE IF StartsWith(lines[i], "diff --git ") /\ Len(current) > 0
    THEN SplitBlocks(lines, i + 1, pushCurrent(blocks, current), <<lines[i]>>)
    ELSE SplitBlocks(lines, i + 1, blocks, Append(current, lines[i]))

\* the last line of the block with the prefix gives the path ("" when there is none)
RECURSIVE LastPath(_, _, _, _)
LastPath(blockLines, prefix, strip, acc) ==
  IF Len(blockLines) = 0 THEN acc
  ELSE LET line == Head(blockLines)
           raw  == Trim(Slice(line, 4))
       IN  LastPath(Tail(blockLines), prefix, strip,
                    IF StartsWith(line, prefix)
                      THEN (IF StartsWith(raw, strip) THEN Slice(raw, 2) ELSE raw)
                      ELSE acc)

CountAdditions(blockLines) ==
  Cardinality({i \in 1..Len(blockLines) :
                 StartsWith(blockLines[i], "+") /\ ~StartsWith(blockLines[i], "+++ ")})

CountDeletions(blockLines) ==
  Cardinality({i \in 1..Len(blockLines) :
                 /\ ~(StartsWith(blockLines[i], "+") /\ ~StartsWith(blockLines[i], "+++ "))
                 /\ StartsWith(blockLines[i], "-") /\ ~StartsWith(blockLines[i], "--- ")})

\* a record whose isValid is always the result of validateDiffHunk
ParseBlockAlwaysValidated(blockText, index) ==
  LET blockLines == SplitLines(blockText)
      oldPath    == LastPath(blockLines, "--- ", "a/", "")
      newPath    == LastPath(blockLines, "+++ ", "b/", "")
      isBinary   == \E i \in 1..Len(blockLines) :
                      StartsWith(blockLines[i], "Binary files ") /\ EndsWith(blockLines[i], " differ")
  IN  [key       |-> IF oldPath # "" \/ newPath # ""
                       THEN oldPath \o "->" \o newPath
                       ELSE "file-" \o NatToString(index),
       oldPath   |-> oldPath,
       newPath   |-> newPath,
       diffText  |-> blockText,
       isBinary  |-> isBinary,
       additions |-> CountAdditions(blockLines),
       deletions |-> CountDeletions(blockLines),
       isValid   |-> validateDiffHunk(blockText)]

\* one record of the result; index is the 0-based position of the block
ParseBlock(blockText, index) ==
  LET blockLines == SplitLines(blockText)
      oldPath    == LastPath(blockLines, "--- ", "a/", "")
      newPath    == LastPath(blockLines, "+++ ", "b/", "")
      isBinary   == \E i \in 1..Len(blockLines) :
                      StartsWith(blockLines[i], "Binary files ") /\ EndsWith(blockLines[i], " differ")
  IN  [key       |-> IF oldPath # "" \/ newPath # ""
                       THEN oldPath \o "->" \o newPath
                       ELSE "file-" \o NatToString(index),
       oldPath   |-> oldPath,
       newPath   |-> newPath,
       diffText  |-> blockText,
       isBinary  |-> isBinary,
       additions |-> CountAdditions(blockLines),
       deletions |-> CountDeletions(blockLines),
       isValid   |-> IF isBinary THEN TRUE ELSE validateDiffHunk(blockText)]

splitUnifiedDiffByFile(diffText) ==
  LET lines  == SplitLines(ReplaceCRLF(diffText))
      blocks == SplitBlocks(lines, 1, <<>>, <<>>)
  IN  [i \in 1..Len(blocks) |-> ParseBlock(blocks[i], i - 1)]

\* two files; in the second answer the first file has changed again
DiffAB == FileBlock("a", "1") \o "\n" \o FileBlock("b", "1")
DiffA2B == FileBlock("a", "2") \o "\n" \o FileBlock("b", "1")
ViewDiffs == {DiffAB, DiffA2B}

\* three files in the order git prints them, by path
DiffNav == FileBlock("1", "1") \o "\n" \o FileBlock("10", "1") \o "\n" \o FileBlock("2", "1")

\* one file
DiffOneFile == FileBlock("a", "1")

\* a modified file and a binary file, which git prints without marker lines
DiffWithBinary == FileBlock("a", "1") \o "\ndiff --git a/i b/i\nBinary files a/i and b/i differ"

\* the diffs the backend answers with, parsed once
DiffTexts == ViewDiffs \cup {DiffNav, DiffOneFile, DiffWithBinary}
ParsedDiffText == [t \in DiffTexts |-> splitUnifiedDiffByFile(t)]

\* ---------------------------------------------------------------------------
\* AgentDiffView (part_002): values
\* ---------------------------------------------------------------------------

\* string | null
NullStr == [isNull |-> TRUE, str |-> ""]
Str(s) == [isNull |-> FALSE, str |-> s]

\* string[] | null
NullList == [isNull |-> TRUE, paths |-> <<>>]
List(ps) == [isNull |-> FALSE, paths |-> ps]

\* ViewedFileState | undefined
Undefined == [defined |-> FALSE, viewed |-> FALSE, contentHash |-> ""]
Lookup(viewedFiles, fileKey) ==
  IF fileKey \in DOMAIN viewedFiles
    THEN [defined |-> TRUE, viewed |-> viewedFiles[fileKey].viewed,
          contentHash |-> viewedFiles[fileKey].contentHash]
    ELSE Undefined

\* { ...m, [k]: v }  and  delete m[k]
Put(m, k, v) == [x \in (DOMAIN m) \cup {k} |-> IF x = k THEN v ELSE m[x]]
Remove(m, k) == [x \in (DOMAIN m) \ {k} |-> m[x]]

Keys(files) == {files[i].key : i \in 1..Len(files)}

\* files.find(f => f.key === fileKey), for a key of the list
FileOf(files, fileKey) ==
  files[CHOOSE i \in 1..Len(files) :
          files[i].key = fileKey /\ \A j \in 1..(i - 1) : files[j].key # fileKey]

\* files.map(f => f.key).join(",")
RECURSIVE JoinKeys(_)
JoinKeys(files) ==
  IF Len(files) = 0 THEN ""
  ELSE IF Len(files) = 1 THEN files[1].key
  ELSE files[1].key \o "," \o JoinKeys(Tail(files))

\* a check that trusts the viewed flag whatever the stored hash
isFileViewedAnyHash(viewedFiles, fileKey, diffText) ==
  fileKey \in DOMAIN viewedFiles /\ viewedFiles[fileKey].viewed

\* isFileViewed (lines 986-991), for the store a render captured
isFileViewed(viewedFiles, fileKey, diffText) ==
  /\ fileKey \in DOMAIN viewedFiles
  /\ viewedFiles[fileKey].viewed
  /\ viewedFiles[fileKey].contentHash = hashString(diffText)

\* the props initialDiff and initialParsedFiles of the view (part_002 lines 838-840)
VARIABLES initialDiff, initialParsedFiles

propVars == <<initialDiff, initialParsedFiles>>

\* useMemo over diff: the parsed records of the raw diff
allFileDiffsOf(d) ==
  IF initialParsedFiles.kind = "array" /\ Len(initialParsedFiles.files) > 0
    THEN initialParsedFiles.files
  ELSE IF d.isNull \/ d.str = "" THEN <<>>
  ELSE IF d.str \in DiffTexts THEN ParsedDiffText[d.str]
  ELSE splitUnifiedDiffByFile(d.str)

\* the path the filter is matched against
FilterPath(file) == IF file.newPath # "/dev/null" THEN file.newPath ELSE file.oldPath

\* the path handed to onSelectNextFile and to the contents query
FilePath(file) ==
  IF file.newPath # "" /\ file.newPath # "/dev/null" THEN file.newPath ELSE file.oldPath

\* useMemo over allFileDiffs and effectiveFilter: the displayed records
fileDiffsOf(all, effectiveFilter) ==
  LET ValidFile(file) ==
        /\ ~(StartsWith(file.key, "file-") /\ file.oldPath = "" /\ file.newPath = "")
        /\ ~(file.oldPath = "/dev/null" /\ file.newPath = "/dev/null")
      validFiles == SelectSeq(all, ValidFile)
      ValidPath(p) == p # "" /\ p # "/dev/null"
      validFilterPaths ==
        IF effectiveFilter.isNull THEN <<>> ELSE SelectSeq(effectiveFilter.paths, ValidPath)
      Matches(file) ==
        \E i \in 1..Len(validFilterPaths) :
          \/ FilterPath(file) = validFilterPaths[i]
          \/ EndsWith(FilterPath(file), validFilterPaths[i])
          \/ EndsWith(validFilterPaths[i], FilterPath(file))
  IN  IF Len(validFilterPaths) = 0 THEN validFiles ELSE SelectSeq(validFiles, Matches)

\* ---------------------------------------------------------------------------
\* AgentDiffView (part_002): state
\* ---------------------------------------------------------------------------

VARIABLES
  chatId,                \* prop: the chat whose diff is shown
  diff,                  \* useState<string | null>
  isLoadingDiff,         \* useState<boolean>
  diffError,             \* useState<string | null>
  discardFilePath,       \* useState<string | null>: the open discard dialog
  filteredDiffFiles,     \* filteredDiffFilesAtom
  allFileDiffs,          \* useMemo([diff]): parsed records of diff
  collapsedByFileKey,    \* useState<Record<string, boolean>>
  prevFileKeysRef,       \* useRef<string>: the key set the collapse state was built for
  isExpandingRef,        \* useRef<boolean>: the auto-expand effect is expanding in batches
  expandTimers,          \* the expandBatch callbacks waiting for their animation frame
  expandRuns,            \* how many batched expansions have been started
  prevStatsRef,          \* useRef: the stats last passed to onStatsChange
  viewedFilesAtom,       \* viewedFilesAtomFamily: chat id -> Record<string, ViewedFileState>
  viewedUndoStackRef,    \* useRef<Array<{fileKey, previousState}>>
  fileContents,          \* useState<Record<string, string>>
  isLoadingFileContents, \* useState<boolean>
  cards,                 \* the mounted FileDiffCards: last rendered props and captured handler
  pendingDiffQueries,    \* chats.getDiff queries in flight
  pendingDiscards,       \* discardChanges / deleteUntracked mutations in flight
  pendingContentQuery,   \* readMultipleWorkingFiles query in flight
  lastFetch,             \* outcome of the most recently completed getDiff query
  newestQuery,           \* the getDiff query issued last: in flight, or its outcome
  lastOp                 \* the handler that ran last, with what it saw and did

viewVars ==
  <<chatId, diff, isLoadingDiff, diffError, discardFilePath, filteredDiffFiles, allFileDiffs,
    collapsedByFileKey, prevFileKeysRef, viewedFilesAtom, viewedUndoStackRef, fileContents,
    isLoadingFileContents, cards, pendingDiffQueries, pendingDiscards, pendingContentQuery,
    lastFetch, newestQuery, lastOp, isExpandingRef, expandTimers, expandRuns, prevStatsRef>>

\* the sub-chat store (part_004) and the browser storage it saves to
VARIABLES
  subChatStore,          \* zustand state: chatId, activeSubChatId, openSubChatIds,
                         \* pinnedSubChatIds, allSubChats
  localStorage,          \* storage key -> JSON text
  snapshotHistoryCache   \* part_003: the sub-chats that have cached task snapshots

subChatVars == <<subChatStore, localStorage, snapshotHistoryCache>>

\* the arguments and the result of the last call of compareTaskIds (part_003)
VARIABLES cmpA, cmpB, cmpResult

cmpVars == <<cmpA, cmpB, cmpResult>>

\* a call of splitUnifiedDiffByFile: the blocks the text was made of, the
\* text, the records returned, and whether the call has been made
VARIABLES splitBlocks, splitInput, splitOutput, splitDone

splitVars == <<splitBlocks, splitInput, splitOutput, splitDone>>

\* a call of the virtualizer's estimateSize: the list and the collapsed map of
\* the render, the index asked for, and the height returned (0 before the call)
VARIABLES estFiles, estCollapsed, estIndex, estResult

sizeVars == <<estFiles, estCollapsed, estIndex, estResult>>

\* the terminal sidebar (part_004): the two atoms, the open flag of each chat's
\* sidebar, the three refs the handlers read (assigned at each render), the
\* terminals a kill was sent for, and the number of ids generated so far
VARIABLES allTerminals, allActiveIds, isOpen, chatIdRef, terminalsRef, activeTerminalIdRef,
          killedTerminals, generatedIds

termVars == <<allTerminals, allActiveIds, isOpen, chatIdRef, terminalsRef, activeTerminalIdRef,
              killedTerminals, generatedIds>>

\* what the handlers of the view and of the store leave alone
pureVars == <<cmpVars, splitVars, sizeVars, termVars>>

\* the values of the current render
viewedFiles == viewedFilesAtom[chatId]
fileDiffs == fileDiffsOf(allFileDiffs, filteredDiffFiles)

\* limit of the undo stack
UndoLimit == 50
MAX_PREFETCH_FILES == 20
\* expandAll and the auto-expand effect: the size of a batch, and the number
\* of files up to which all files are expanded at once
BATCH_SIZE == 5
COLLAPSED_HEIGHT == 44
ExpandAtOnceLimit == 10

\* bounds of the exploration
MaxUndoDepth == 2
MaxUndoDepthUndo == 3
MaxUndoDepthNav == 3
MaxPending == 2
MaxTimers == 2
MaxExpandRuns == 3
MaxLines == 20

ChatIds == {"c1", "c2"}

NoQuery == [active |-> FALSE, keys |-> {}]

\* a prop that is not passed
UndefinedDiff == [kind |-> "undefined", str |-> ""]
UndefinedFiles == [kind |-> "undefined", files |-> <<>>]

\* the fields of lastOp; handlers fill the ones they use
Op(name) ==
  [op |-> name, fileKey |-> "", viaCard |-> FALSE, willBeViewed |-> FALSE,
   entry |-> Undefined, preEntry |-> Undefined, selectedIndex |-> 0, selected |-> NullStr,
   prevKey |-> "", prevEntry |-> Undefined, afterMark |-> FALSE, markPreEntry |-> Undefined,
   contentsBefore |-> <<>>, returned |-> {}, session |-> NullStr,
   batch |-> 0, batchKeys |-> <<>>, storeBefore |-> <<>>, listedKeys |-> {},
   userOp |-> ""]

\* ---------------------------------------------------------------------------
\* rendering: the list branch of the view, the memoised cards, the effects
\* ---------------------------------------------------------------------------

\* the branch of the content area (lines 2127-2197)
Branch(l, lfc, e, fds) ==
  IF l \/ (lfc /\ Len(fds) = 0) THEN "spinner"
  ELSE IF ~e.isNull /\ e.str # "" THEN "error"
  ELSE IF Len(fds) > 0 THEN "list"
  ELSE "empty"

CardProps(file, c, vf, fc, lfc) ==
  [diffText         |-> file.diffText,
   isCollapsed      |-> file.key \in DOMAIN c /\ c[file.key],
   hasContent       |-> file.key \in DOMAIN fc /\ fc[file.key] # "",
   isLoadingContent |-> lfc,
   isViewed         |-> isFileViewed(vf, file.key, file.diffText)]

\* the props the memo comparator looks at; onToggleViewed is not among them
fileDiffCardAreEqual(prev, next) ==
  /\ prev.diffText = next.diffText
  /\ prev.isCollapsed = next.isCollapsed
  /\ prev.hasContent = next.hasContent
  /\ prev.isLoadingContent = next.isLoadingContent
  /\ prev.isViewed = next.isViewed

\* one render pass over the cards: a card whose props compare equal keeps the
\* handler (and so the viewedFiles and allFileDiffs) of its last render
RenderCards(prev, fds, l, e, c, vf, fc, lfc, all) ==
  [k \in (IF Branch(l, lfc, e, fds) = "list" THEN Keys(fds) ELSE {}) |->
     IF k \in DOMAIN prev /\ fileDiffCardAreEqual(prev[k].props, CardProps(FileOf(fds, k), c, vf, fc, lfc))
       THEN prev[k]
       ELSE [props |-> CardProps(FileOf(fds, k), c, vf, fc, lfc),
             viewedFiles |-> vf, allFileDiffs |-> all]]

\* the invalidation effect (lines 1348-1366)
InvalidateStale(fds, vf) ==
  [k \in DOMAIN vf |->
     IF /\ k \in Keys(fds)
        /\ \E i \in 1..Len(fds) :
             fds[i].key = k /\ vf[k].viewed /\ vf[k].contentHash # hashString(fds[i].diffText)
       THEN [viewed |-> FALSE, contentHash |-> ""]
       ELSE vf[k]]

\* the auto-expand effect for up to ten files (lines 1384-1402)
AutoExpand(fds, c, prevKeys) ==
  IF JoinKeys(fds) # prevKeys THEN [k \in Keys(fds) |-> FALSE] ELSE c

\* the keys of the files, in the order of the list
KeySeq(fds) == [i \in 1..Len(fds) |-> fds[i].key]

\* the keys expandBatch sets for the batch currentBatch (start .. end - 1)
BatchKeys(keys, currentBatch) ==
  {keys[i] : i \in {j \in 1..Len(keys) :
                      currentBatch * BATCH_SIZE < j /\ j <= currentBatch * BATCH_SIZE + BATCH_SIZE}}

\* setCollapsedByFileKey((prev) => ({...prev, [key]: false for the keys}))
ExpandKeys(prev, keys) ==
  [k \in DOMAIN prev \cup keys |-> IF k \in keys THEN FALSE ELSE prev[k]]

\* the callback scheduled by requestAnimationFrame(() => setTimeout(expandBatch, 0))
ExpandTimer(keys, currentBatch, auto) ==
  [keys |-> keys, currentBatch |-> currentBatch, auto |-> auto]

\* allFileDiffs.reduce((sum, f) => sum + f.additions, 0), and for deletions
RECURSIVE TotalAdditions(_)
TotalAdditions(all) ==
  IF Len(all) = 0 THEN 0 ELSE all[1].additions + TotalAdditions(Tail(all))

RECURSIVE TotalDeletions(_)
TotalDeletions(all) ==
  IF Len(all) = 0 THEN 0 ELSE all[1].deletions + TotalDeletions(Tail(all))

\* prevStatsRef: null, or the stats passed to onStatsChange (hasChanges is
\* fileCount > 0)
NullStats == [isNull |-> TRUE, fileCount |-> 0, additions |-> 0, deletions |-> 0, isLoading |-> FALSE]
StatsOf(all, l) ==
  [isNull |-> FALSE, fileCount |-> Len(all), additions |-> TotalAdditions(all),
   deletions |-> TotalDeletions(all), isLoading |-> l]

\* the onStatsChange effect (lines 1776-1832): the stats the parent holds after
\* it; nothing is reported while a filter is set, for no files when not
\* loading, or when the stats are those reported last
ReportStats(prev, all, l, f) ==
  IF ~f.isNull /\ Len(f.paths) > 0 THEN prev
  ELSE IF Len(all) = 0 /\ ~l THEN prev
  ELSE StatsOf(all, l)

\* the files the contents effect asks for (lines 1547-1559)
FilesToFetch(fds) ==
  {fds[i].key : i \in {j \in 1..Len(fds) :
                         j <= MAX_PREFETCH_FILES /\ FilePath(fds[j]) # "" /\ FilePath(fds[j]) # "/dev/null"}}

\* whether the contents effect starts a query (lines 1523-1539)
StartsContentQuery(fdsChanged, fds, fc, lfc) ==
  /\ fdsChanged
  /\ Len(fds) # 0 /\ ~lfc
  /\ Cardinality(DOMAIN fc) < (IF Len(fds) < MAX_PREFETCH_FILES THEN Len(fds) ELSE MAX_PREFETCH_FILES)
  /\ FilesToFetch(fds) # {}

\* the commit that follows a handler: the render with the handler's new state,
\* the effects of that render, and the render with what the effects set
\* ier, timers, runs: isExpandingRef, the waiting callbacks and the number of
\* batched expansions as the handler left them
\* all, fds: the memos allFileDiffs and fileDiffs of the render
\* cid: the chatId prop of the render
RenderCommit(cid, fdsChanged, all, fds, d, l, e, f, c, vf, fc, lfc, pcq, ier, timers, runs) ==
  LET cards1 == RenderCards(cards, fds, l, e, c, vf, fc, lfc, all)
      vf2    == IF Len(fds) = 0 THEN vf ELSE InvalidateStale(fds, vf)
      \* the auto-expand effect (lines 1384-1440)
      expands == fdsChanged /\ JoinKeys(fds) # prevFileKeysRef /\ ~ier
      batched == expands /\ Len(fds) > ExpandAtOnceLimit
      again   == batched /\ 1 * BATCH_SIZE < Len(fds)
      c2      == IF batched THEN ExpandKeys(c, BatchKeys(KeySeq(fds), 0))
                 ELSE IF expands THEN AutoExpand(fds, c, prevFileKeysRef)
                 ELSE c
      starts == StartsContentQuery(fdsChanged, fds, fc, lfc)
  IN  /\ batched => (runs < MaxExpandRuns /\ Len(timers) < MaxTimers)
      /\ isExpandingRef' = (ier \/ again)
      /\ expandTimers' = IF again THEN Append(timers, ExpandTimer(KeySeq(fds), 1, TRUE)) ELSE timers
      /\ expandRuns' = IF batched THEN runs + 1 ELSE runs
      /\ prevStatsRef' = ReportStats(prevStatsRef, all, l, f)
      /\ diff' = d
      /\ isLoadingDiff' = l
      /\ diffError' = e
      /\ filteredDiffFiles' = f
      /\ allFileDiffs' = all
      /\ collapsedByFileKey' = c2
      /\ prevFileKeysRef' = IF expands THEN JoinKeys(fds) ELSE prevFileKeysRef
      /\ viewedFilesAtom' = [viewedFilesAtom EXCEPT ![cid] = vf2]
      /\ fileContents' = fc
      /\ isLoadingFileContents' = (lfc \/ starts)
      /\ pendingContentQuery' = IF starts THEN [active |-> TRUE, keys |-> FilesToFetch(fds)] ELSE pcq
      /\ cards' = RenderCards(cards1, fds, l, e, c2, vf2, fc, lfc \/ starts, all)

\* the render computes the memo fileDiffs from allFileDiffs and the filter
RenderFiltered(cid, fdsChanged, all, d, l, e, f, c, vf, fc, lfc, pcq, ier, timers, runs) ==
  RenderCommit(cid, fdsChanged, all, fileDiffsOf(all, f), d, l, e, f, c, vf, fc, lfc, pcq, ier, timers, runs)

\* the render recomputes the memo allFileDiffs only when the diff has changed
RenderForChat(cid, fdsChanged, d, l, e, f, c, vf, fc, lfc, pcq, ier, timers, runs) ==
  RenderFiltered(cid, fdsChanged, IF d = diff THEN allFileDiffs ELSE allFileDiffsOf(d),
                 d, l, e, f, c, vf, fc, lfc, pcq, ier, timers, runs)

\* a commit of a render whose chatId prop is the one of the render before
RenderExpanding(fdsChanged, d, l, e, f, c, vf, fc, lfc, pcq, ier, timers, runs) ==
  RenderForChat(chatId, fdsChanged, d, l, e, f, c, vf, fc, lfc, pcq, ier, timers, runs)

\* a commit whose handler leaves the expansion bookkeeping alone
RenderEffects(fdsChanged, d, l, e, f, c, vf, fc, lfc, pcq) ==
  RenderExpanding(fdsChanged, d, l, e, f, c, vf, fc, lfc, pcq,
                  isExpandingRef, expandTimers, expandRuns)

\* the commit after a handler: the effects that depend on fileDiffs run when
\* the diff or the filter has changed
Render(d, l, e, f, c, vf, fc, lfc, pcq) ==
  RenderEffects(d # diff \/ f # filteredDiffFiles, d, l, e, f, c, vf, fc, lfc, pcq)

\* a handler that changes only the viewed-state store
RenderViewed(vf) ==
  Render(diff, isLoadingDiff, diffError, filteredDiffFiles, collapsedByFileKey, vf,
         fileContents, isLoadingFileContents, pendingContentQuery)

\* a handler that changes only the diff, its loading flag and its error
RenderDiff(d, l, e) ==
  Render(d, l, e, filteredDiffFiles, collapsedByFileKey, viewedFiles,
         fileContents, isLoadingFileContents, pendingContentQuery)

\* ---------------------------------------------------------------------------
\* the diff query: fetchDiff on mount, handleRefresh, the discard dialog
\* ---------------------------------------------------------------------------

\* the getDiff query issued last: none yet, in flight, or completed with its
\* outcome; the queries issued before it are only counted in pendingDiffQueries
NoQueryIssued == [state |-> "none", str |-> ""]
QueryInFlight == [state |-> "inFlight", str |-> ""]

\* the query that completes may be the one issued last (newest) or, when more
\* than that one is in flight, one issued earlier: the responses of
\* overlapping queries arrive in any order
CompletesQuery(newest) ==
  IF newest THEN newestQuery.state = "inFlight"
  ELSE pendingDiffQueries > (IF newestQuery.state = "inFlight" THEN 1 ELSE 0)

\* chats.getDiff resolves with result.diff = d (lines 1038-1040, 1095-1112, finally)
GetDiffResolveOf(newest, d) ==
  /\ pendingDiffQueries > 0
  /\ CompletesQuery(newest)
  /\ pendingDiffQueries' = pendingDiffQueries - 1
  /\ lastFetch' = "ok"
  /\ newestQuery' = IF newest THEN [state |-> "ok", str |-> IF Trim(d) # "" THEN d ELSE ""]
                              ELSE newestQuery
  /\ lastOp' = Op("getDiffResolve")
  /\ RenderDiff(Str(IF Trim(d) # "" THEN d ELSE ""), FALSE, diffError)
  /\ UNCHANGED <<subChatVars, pureVars, propVars, chatId, discardFilePath, viewedUndoStackRef, pendingDiscards>>

GetDiffResolve(d) == \E newest \in BOOLEAN : GetDiffResolveOf(newest, d)

\* chats.getDiff rejects (catch and finally of fetchDiff and handleRefresh)
GetDiffRejectOf(newest) ==
  /\ pendingDiffQueries > 0
  /\ CompletesQuery(newest)
  /\ pendingDiffQueries' = pendingDiffQueries - 1
  /\ lastFetch' = "failed"
  /\ newestQuery' = IF newest THEN [state |-> "failed", str |-> ""] ELSE newestQuery
  /\ lastOp' = Op("getDiffReject")
  /\ RenderDiff(diff, FALSE, Str("Failed to fetch diff"))
  /\ UNCHANGED <<subChatVars, pureVars, propVars, chatId, discardFilePath, viewedUndoStackRef, pendingDiscards>>

GetDiffReject == \E newest \in BOOLEAN : GetDiffRejectOf(newest)

\* handleRefresh up to its await, from the "Try again" button of the error branch
handleRefresh ==
  /\ Branch(isLoadingDiff, isLoadingFileContents, diffError, fileDiffs) = "error"
  /\ pendingDiffQueries + pendingDiscards < MaxPending
  /\ pendingDiffQueries' = pendingDiffQueries + 1
  /\ newestQuery' = QueryInFlight
  /\ lastOp' = Op("handleRefresh")
  /\ RenderDiff(diff, TRUE, NullStr)
  /\ UNCHANGED <<subChatVars, pureVars, propVars, chatId, discardFilePath, viewedUndoStackRef, pendingDiscards, lastFetch>>

\* the discard item of a card's menu opens the dialog
handleDiscardFile(fileKey) ==
  /\ fileKey \in DOMAIN cards
  /\ discardFilePath' = Str(FilePath(FileOf(fileDiffs, fileKey)))
  /\ lastOp' = Op("handleDiscardFile")
  /\ RenderViewed(viewedFiles)
  /\ UNCHANGED <<subChatVars, pureVars, propVars, chatId, viewedUndoStackRef, pendingDiffQueries, pendingDiscards, lastFetch, newestQuery>>

\* the Cancel button of the dialog
CancelDiscard ==
  /\ ~discardFilePath.isNull
  /\ discardFilePath' = NullStr
  /\ lastOp' = Op("cancelDiscard")
  /\ RenderViewed(viewedFiles)
  /\ UNCHANGED <<subChatVars, pureVars, propVars, chatId, viewedUndoStackRef, pendingDiffQueries, pendingDiscards, lastFetch, newestQuery>>

\* handleConfirmDiscard up to its await: the Discard button stays enabled while
\* the mutation is in flight
handleConfirmDiscard ==
  /\ ~discardFilePath.isNull /\ discardFilePath.str # ""
  /\ pendingDiffQueries + pendingDiscards < MaxPending
  /\ pendingDiscards' = pendingDiscards + 1
  /\ lastOp' = Op("handleConfirmDiscard")
  /\ RenderViewed(viewedFiles)
  /\ UNCHANGED <<subChatVars, pureVars, propVars, chatId, discardFilePath, viewedUndoStackRef, pendingDiffQueries, lastFetch, newestQuery>>

\* the mutation resolves: handleRefresh() is started, the dialog is closed
DiscardResolve ==
  /\ pendingDiscards > 0
  /\ pendingDiscards' = pendingDiscards - 1
  /\ pendingDiffQueries' = pendingDiffQueries + 1
  /\ discardFilePath' = NullStr
  /\ newestQuery' = QueryInFlight
  /\ lastOp' = Op("discardResolve")
  /\ RenderDiff(diff, TRUE, NullStr)
  /\ UNCHANGED <<subChatVars, pureVars, propVars, chatId, viewedUndoStackRef, lastFetch>>

\* the mutation rejects: only the dialog is closed
DiscardReject ==
  /\ pendingDiscards > 0
  /\ pendingDiscards' = pendingDiscards - 1
  /\ discardFilePath' = NullStr
  /\ lastOp' = Op("discardReject")
  /\ RenderViewed(viewedFiles)
  /\ UNCHANGED <<subChatVars, pureVars, propVars, chatId, viewedUndoStackRef, pendingDiffQueries, lastFetch, newestQuery>>

\* ---------------------------------------------------------------------------
\* the viewed state: handleToggleViewed, undoLastViewed, markAllViewed, ...
\* ---------------------------------------------------------------------------

Min(S) == CHOOSE m \in S : \A n \in S : m <= n

\* all.findIndex(f => f.key === fileKey), 1-based, 0 when there is none
FindIndex(all, fileKey) ==
  IF fileKey \in Keys(all) THEN Min({i \in 1..Len(all) : all[i].key = fileKey}) ELSE 0

\* the two search loops of handleToggleViewed (lines 1701-1720): the index of
\* the record chosen, 0 when every record is viewed
NextUnviewedAfter(all, newViewedFiles, currentIndex) ==
  LET Unviewed(i) == ~isFileViewed(newViewedFiles, all[i].key, all[i].diffText)
      after  == {i \in (currentIndex + 1)..Len(all) : Unviewed(i)}
      before == {i \in 1..(currentIndex - 1) : Unviewed(i)}
  IN  IF after # {} THEN Min(after) ELSE IF before # {} THEN Min(before) ELSE 0

nextUnviewedFile(all, newViewedFiles, currentIndex) ==
  NextUnviewedAfter(all, newViewedFiles, currentIndex)

\* the argument of onSelectNextFile, null when it is not called
SelectedPath(all, index) ==
  IF index # 0 /\ FilePath(all[index]) # "" /\ FilePath(all[index]) # "/dev/null"
    THEN Str(FilePath(all[index]))
    ELSE NullStr

\* viewedUndoStackRef.current.push(...), shift() beyond the limit
PushUndo(stack, item) ==
  IF Len(stack) + 1 > UndoLimit THEN Tail(Append(stack, item)) ELSE Append(stack, item)

\* handleToggleViewed(fileKey, diffText) as captured by a render that saw the
\* store vf and the records all (lines 1663-1735); the exploration stops
\* toggling at an undo stack of depth entries
ToggleViewed(vf, all, fileKey, diffText, viaCard, depth) ==
  LET willBeViewed   == ~isFileViewed(vf, fileKey, diffText)
      newEntry       == [viewed |-> willBeViewed, contentHash |-> hashString(diffText)]
      newViewedFiles == Put(vf, fileKey, newEntry)
      currentIndex   == FindIndex(all, fileKey)
      chosen         == IF willBeViewed /\ currentIndex # 0
                          THEN nextUnviewedFile(all, newViewedFiles, currentIndex)
                          ELSE 0
  IN  /\ Len(viewedUndoStackRef) < depth
      /\ viewedUndoStackRef' =
           PushUndo(viewedUndoStackRef, [fileKey |-> fileKey, previousState |-> Lookup(vf, fileKey)])
      /\ lastOp' = [Op("toggle") EXCEPT
                      !.fileKey = fileKey, !.viaCard = viaCard, !.willBeViewed = willBeViewed,
                      !.entry = Lookup(newViewedFiles, fileKey),
                      !.preEntry = Lookup(viewedFiles, fileKey),
                      !.selectedIndex = chosen, !.selected = SelectedPath(all, chosen),
                      !.prevKey = IF lastOp.op = "toggle" THEN lastOp.fileKey ELSE "",
                      !.prevEntry = IF lastOp.op = "toggle" THEN lastOp.entry ELSE Undefined]
      /\ RenderViewed(newViewedFiles)
      /\ UNCHANGED <<subChatVars, pureVars, propVars, chatId, discardFilePath, pendingDiffQueries, pendingDiscards, lastFetch, newestQuery>>

\* the checkbox or the menu item of a mounted card: the handler the card got
\* at its last render, with the card's own file
ToggleViaCard(fileKey, depth) ==
  /\ fileKey \in DOMAIN cards
  /\ ToggleViewed(cards[fileKey].viewedFiles, cards[fileKey].allFileDiffs,
                  fileKey, cards[fileKey].props.diffText, TRUE, depth)

\* the V key: the first item of the virtualizer, with the handler of the
\* current render (lines 1958-1991)
ToggleViaKey(depth) ==
  /\ Len(fileDiffs) > 0
  /\ ToggleViewed(viewedFiles, allFileDiffs, fileDiffs[1].key, fileDiffs[1].diffText, FALSE, depth)

\* undoLastViewed, from Cmd+Z (lines 1738-1768)
undoLastViewed ==
  /\ Len(viewedUndoStackRef) > 0
  /\ LET lastAction == viewedUndoStackRef[Len(viewedUndoStackRef)]
         fileKey    == lastAction.fileKey
         restored   == IF ~lastAction.previousState.defined
                         THEN Remove(viewedFiles, fileKey)
                         ELSE Put(viewedFiles, fileKey,
                                  [viewed |-> lastAction.previousState.viewed,
                                   contentHash |-> lastAction.previousState.contentHash])
         index      == FindIndex(allFileDiffs, fileKey)
     IN  /\ viewedUndoStackRef' = SubSeq(viewedUndoStackRef, 1, Len(viewedUndoStackRef) - 1)
         /\ lastOp' = [Op("undo") EXCEPT
                         !.fileKey = fileKey, !.preEntry = Lookup(viewedFiles, fileKey),
                         !.selectedIndex = index, !.selected = SelectedPath(allFileDiffs, index),
                         !.afterMark = (lastOp.op = "toggle" /\ lastOp.willBeViewed),
                         !.markPreEntry = IF lastOp.op = "toggle" THEN lastOp.preEntry ELSE Undefined]
         /\ RenderViewed(restored)
  /\ UNCHANGED <<subChatVars, pureVars, propVars, chatId, discardFilePath, pendingDiffQueries, pendingDiscards, lastFetch, newestQuery>>

\* the parent renders the view with another chatId prop (the view fetches its
\* own diff: initialDiff is not passed): viewedFiles is the atom of chat c
\* (line 980), the refs and the other state stay, and the fetch effect runs
\* again because chatId is one of its dependencies (lines 1033-1046, 1084)
SetChatIdProp(c) ==
  /\ c # chatId
  /\ initialDiff.kind = "undefined"
  /\ pendingDiffQueries + pendingDiscards < MaxPending
  /\ chatId' = c
  /\ pendingDiffQueries' = pendingDiffQueries + 1
  /\ newestQuery' = QueryInFlight
  /\ lastOp' = Op("setChatIdProp")
  /\ RenderForChat(c, FALSE, diff, TRUE, diffError, filteredDiffFiles, collapsedByFileKey,
                   viewedFilesAtom[c], fileContents, isLoadingFileContents, pendingContentQuery,
                   isExpandingRef, expandTimers, expandRuns)
  /\ UNCHANGED <<subChatVars, pureVars, propVars, discardFilePath, viewedUndoStackRef,
                 pendingDiscards, lastFetch>>

\* undoLastViewed on an empty stack: pop() gives undefined and the function
\* returns false (lines 1739-1740)
undoLastViewedEmpty ==
  /\ Len(viewedUndoStackRef) = 0
  /\ lastOp' = [Op("undoEmpty") EXCEPT !.preEntry = Lookup(viewedFiles, lastOp.fileKey)]
  /\ UNCHANGED <<subChatVars, pureVars, propVars, chatId, diff, isLoadingDiff, diffError,
                 discardFilePath, filteredDiffFiles, allFileDiffs, collapsedByFileKey,
                 prevFileKeysRef, viewedFilesAtom, viewedUndoStackRef, fileContents,
                 isLoadingFileContents, cards, pendingDiffQueries, pendingDiscards,
                 pendingContentQuery, lastFetch, newestQuery, isExpandingRef, expandTimers, expandRuns,
                 prevStatsRef>>

\* markAllViewed, through the ref handle (lines 1288-1300)
markAllViewed ==
  /\ lastOp' = [Op("markAllViewed") EXCEPT !.storeBefore = viewedFiles,
                                           !.listedKeys = Keys(fileDiffs)]
  /\ Render(diff, isLoadingDiff, diffError, filteredDiffFiles,
            [k \in Keys(fileDiffs) |-> TRUE],
            [k \in Keys(fileDiffs) |->
               [viewed |-> TRUE, contentHash |-> hashString(FileOf(fileDiffs, k).diffText)]],
            fileContents, isLoadingFileContents, pendingContentQuery)
  /\ UNCHANGED <<subChatVars, pureVars, propVars, chatId, discardFilePath, viewedUndoStackRef, pendingDiffQueries,
                 pendingDiscards, lastFetch, newestQuery>>

\* markAllUnviewed, through the ref handle (lines 1303-1310)
markAllUnviewed ==
  /\ lastOp' = [Op("markAllUnviewed") EXCEPT !.storeBefore = viewedFiles,
                                             !.listedKeys = Keys(fileDiffs)]
  /\ Render(diff, isLoadingDiff, diffError, filteredDiffFiles,
            [k \in Keys(fileDiffs) |-> FALSE], <<>>,
            fileContents, isLoadingFileContents, pendingContentQuery)
  /\ UNCHANGED <<subChatVars, pureVars, propVars, chatId, discardFilePath, viewedUndoStackRef, pendingDiffQueries,
                 pendingDiscards, lastFetch, newestQuery>>

\* the header of a mounted card: toggleFileCollapsed (lines 1627-1632)
\* whether the card of the file is shown collapsed (!!collapsedByFileKey[key])
IsCollapsed(c, fileKey) == fileKey \in DOMAIN c /\ c[fileKey]

\* an expandAll that expands every file in one step, whatever their number
expandAllAtOnce ==
  /\ lastOp' = [Op("expandAll") EXCEPT !.batchKeys = KeySeq(fileDiffs)]
  /\ Render(diff, isLoadingDiff, diffError, filteredDiffFiles,
            [k \in Keys(fileDiffs) |-> FALSE],
            viewedFiles, fileContents, isLoadingFileContents, pendingContentQuery)
  /\ UNCHANGED <<subChatVars, pureVars, propVars, chatId, discardFilePath, viewedUndoStackRef,
                 pendingDiffQueries, pendingDiscards, lastFetch, newestQuery>>

\* expandAll, through the ref handle (lines 1214-1258): at once for up to ten
\* files, else the first batch now and the callback for the next one
expandAll ==
  LET keys    == KeySeq(fileDiffs)
      batched == Len(fileDiffs) > ExpandAtOnceLimit
      again   == batched /\ 1 * BATCH_SIZE < Len(fileDiffs)
  IN  /\ batched => (expandRuns < MaxExpandRuns /\ Len(expandTimers) < MaxTimers)
      /\ lastOp' = [Op("expandAll") EXCEPT !.batch = IF batched THEN 1 ELSE 0, !.batchKeys = keys]
      /\ RenderExpanding(FALSE, diff, isLoadingDiff, diffError, filteredDiffFiles,
                         IF batched
                           THEN ExpandKeys(collapsedByFileKey, BatchKeys(keys, 0))
                           ELSE [k \in Keys(fileDiffs) |-> FALSE],
                         viewedFiles, fileContents, isLoadingFileContents, pendingContentQuery,
                         isExpandingRef,
                         IF again THEN Append(expandTimers, ExpandTimer(keys, 1, FALSE))
                                  ELSE expandTimers,
                         IF batched THEN expandRuns + 1 ELSE expandRuns)
      /\ UNCHANGED <<subChatVars, pureVars, propVars, chatId, discardFilePath, viewedUndoStackRef,
                     pendingDiffQueries, pendingDiscards, lastFetch, newestQuery>>

\* the sequence without its i-th element
WithoutIndex(seq, i) == SubSeq(seq, 1, i - 1) \o SubSeq(seq, i + 1, Len(seq))

\* a waiting expandBatch callback runs (lines 1236-1255 and 1411-1437): it
\* expands the files of its batch, of the list its closure captured, and
\* schedules itself again while files are left
expandBatch(i) ==
  /\ i \in 1..Len(expandTimers)
  /\ LET t            == expandTimers[i]
         past         == t.currentBatch * BATCH_SIZE >= Len(t.keys)
         currentBatch == IF past THEN t.currentBatch ELSE t.currentBatch + 1
         again        == ~past /\ currentBatch * BATCH_SIZE < Len(t.keys)
         rest         == WithoutIndex(expandTimers, i)
     IN  /\ lastOp' = [Op("expandBatch") EXCEPT
                         !.batch = currentBatch, !.batchKeys = t.keys,
                         !.userOp = IF lastOp.op = "expandBatch" THEN lastOp.userOp ELSE lastOp.op]
         /\ RenderExpanding(FALSE, diff, isLoadingDiff, diffError, filteredDiffFiles,
                            IF past THEN collapsedByFileKey
                                    ELSE ExpandKeys(collapsedByFileKey,
                                                    BatchKeys(t.keys, t.currentBatch)),
                            viewedFiles, fileContents, isLoadingFileContents, pendingContentQuery,
                            IF t.auto /\ ~again THEN FALSE ELSE isExpandingRef,
                            IF again THEN Append(rest, ExpandTimer(t.keys, currentBatch, t.auto))
                                     ELSE rest,
                            expandRuns)
  /\ UNCHANGED <<subChatVars, pureVars, propVars, chatId, discardFilePath, viewedUndoStackRef,
                 pendingDiffQueries, pendingDiscards, lastFetch, newestQuery>>

\* collapseAll, through the ref handle (lines 1260-1269)
collapseAll ==
  /\ lastOp' = Op("collapseAll")
  /\ Render(diff, isLoadingDiff, diffError, filteredDiffFiles,
            [k \in Keys(fileDiffs) |-> TRUE],
            viewedFiles, fileContents, isLoadingFileContents, pendingContentQuery)
  /\ UNCHANGED <<subChatVars, pureVars, propVars, chatId, discardFilePath, viewedUndoStackRef,
                 pendingDiffQueries, pendingDiscards, lastFetch, newestQuery>>

toggleFileCollapsed(fileKey) ==
  /\ fileKey \in DOMAIN cards
  /\ lastOp' = Op("toggleFileCollapsed")
  /\ Render(diff, isLoadingDiff, diffError, filteredDiffFiles,
            Put(collapsedByFileKey, fileKey,
                ~(fileKey \in DOMAIN collapsedByFileKey /\ collapsedByFileKey[fileKey])),
            viewedFiles, fileContents, isLoadingFileContents, pendingContentQuery)
  /\ UNCHANGED <<subChatVars, pureVars, propVars, chatId, discardFilePath, viewedUndoStackRef, pendingDiffQueries,
                 pendingDiscards, lastFetch, newestQuery>>

\* the sub-chat review sets filteredDiffFilesAtom
SetFilter(f) ==
  /\ f # filteredDiffFiles
  /\ lastOp' = Op("setFilter")
  /\ Render(diff, isLoadingDiff, diffError, f, collapsedByFileKey, viewedFiles,
            fileContents, isLoadingFileContents, pendingContentQuery)
  /\ UNCHANGED <<subChatVars, pureVars, propVars, chatId, discardFilePath, viewedUndoStackRef, pendingDiffQueries,
                 pendingDiscards, lastFetch, newestQuery>>

\* ---------------------------------------------------------------------------
\* the view after mount, and what the backend may answer
\* ---------------------------------------------------------------------------

\* the state after the first render and its effects: initialDiff is not given,
\* so fetchDiff is in flight (lines 954-1008, 1021-1084)
InitView(prefetchedFileContents) ==
  /\ chatId = "c1"
  /\ diff = NullStr
  /\ isLoadingDiff = TRUE
  /\ diffError = NullStr
  /\ discardFilePath = NullStr
  /\ filteredDiffFiles = NullList
  /\ allFileDiffs = <<>>
  /\ collapsedByFileKey = <<>>
  /\ prevFileKeysRef = ""
  /\ isExpandingRef = FALSE
  /\ expandTimers = <<>>
  /\ expandRuns = 0
  /\ prevStatsRef = StatsOf(<<>>, TRUE)
  /\ viewedFilesAtom = [c \in ChatIds |-> <<>>]
  /\ viewedUndoStackRef = <<>>
  /\ fileContents = prefetchedFileContents
  /\ isLoadingFileContents = FALSE
  /\ cards = <<>>
  /\ pendingDiffQueries = 1
  /\ pendingDiscards = 0
  /\ pendingContentQuery = NoQuery
  /\ lastFetch = "none"
  /\ newestQuery = QueryInFlight
  /\ lastOp = Op("mount")
  /\ initialDiff = UndefinedDiff
  /\ initialParsedFiles = UndefinedFiles

ViewFilters == {NullList, List(<<"b">>)}
ViewKeys == {"a->a", "b->b"}
ViewPrefetched == [k \in ViewKeys |-> "o"]

\* the sub-chat store before any chat is opened (part_004 lines 131-136)
InitSubChats ==
  /\ subChatStore = [chatId |-> NullStr, activeSubChatId |-> NullStr,
                     openSubChatIds |-> <<>>, pinnedSubChatIds |-> <<>>, allSubChats |-> <<>>]
  /\ localStorage = <<>>
  /\ snapshotHistoryCache = {}

InitCmpIdle == cmpA = "" /\ cmpB = "" /\ cmpResult = 0

\* no text has been given to the splitter
InitSplitIdle ==
  splitBlocks = <<>> /\ splitInput = "" /\ splitOutput = <<>> /\ splitDone = FALSE

\* estimateSize has not been called
InitSizeIdle == estFiles = <<>> /\ estCollapsed = <<>> /\ estIndex = 0 /\ estResult = 0

\* the sidebar of chat c1 is mounted closed, with no terminal in any chat
NullTerminal == "null"

InitTerminals ==
  /\ allTerminals = [c \in ChatIds |-> <<>>]
  /\ allActiveIds = [c \in ChatIds |-> NullTerminal]
  /\ isOpen = [c \in ChatIds |-> FALSE]
  /\ chatIdRef = "c1"
  /\ terminalsRef = <<>>
  /\ activeTerminalIdRef = NullTerminal
  /\ killedTerminals = {}
  /\ generatedIds = 0

InitCmp == InitCmpIdle /\ InitSplitIdle /\ InitSizeIdle /\ InitTerminals

vars == <<viewVars, propVars, subChatVars, cmpVars, splitVars, sizeVars, termVars>>

\* ---------------------------------------------------------------------------
\* Spec: the view with the discard dialog, the refresh it starts, the viewed
\* toggles and the file filter
\* ---------------------------------------------------------------------------

Init == InitView(ViewPrefetched) /\ InitSubChats /\ InitCmp

Next ==
  \/ \E d \in ViewDiffs : GetDiffResolve(d)
  \/ \E k \in ViewKeys : handleDiscardFile(k)
  \/ handleConfirmDiscard
  \/ DiscardResolve
  \/ \E k \in ViewKeys : ToggleViaCard(k, MaxUndoDepth)
  \/ ToggleViaKey(MaxUndoDepth)
  \/ \E f \in ViewFilters : SetFilter(f)

Spec == Init /\ [][Next]_vars

\* the records of the diff, as indices of allFileDiffs
Records == 1..Len(allFileDiffs)

C3_NoStaleViewedEntry ==
  \A i \in Records :
    Lookup(viewedFiles, allFileDiffs[i].key).viewed
      => Lookup(viewedFiles, allFileDiffs[i].key).contentHash
           = hashStringOf(allFileDiffs[i].diffText)

\* ---------------------------------------------------------------------------
\* SpecUndo: one diff, the viewed toggles from the cards and from the V key,
\* undo, and mark-all-unviewed
\* ---------------------------------------------------------------------------

NextUndo ==
  \/ GetDiffResolve(DiffAB)
  \/ \E k \in ViewKeys : ToggleViaCard(k, MaxUndoDepthUndo)
  \/ ToggleViaKey(MaxUndoDepthUndo)
  \/ undoLastViewed
  \/ markAllUnviewed

SpecUndo == Init /\ [][NextUndo]_vars

\* C2: marking an unviewed file f viewed and then undoing restores f's stored
\* entry to exactly what it was before the mark (absent, or the same viewed
\* flag and content hash).
C2_UndoRestoresEntry ==
  (lastOp.op = "undo" /\ lastOp.afterMark)
    => Lookup(viewedFiles, lastOp.fileKey) = lastOp.markPreEntry

\* C4: when toggleViewed runs for a file f and then for a different file g,
\* the store afterwards holds the entry written for f and the entry written
\* for g.
C4_NoLostUpdate ==
  (lastOp.op = "toggle" /\ lastOp.prevKey # "" /\ lastOp.prevKey # lastOp.fileKey)
    => /\ Lookup(viewedFiles, lastOp.prevKey) = lastOp.prevEntry
       /\ Lookup(viewedFiles, lastOp.fileKey) = lastOp.entry
\* ---------------------------------------------------------------------------
\* SpecMarkAll: one diff, the file filter, mark-all-viewed, the V key and the
\* card headers
\* ---------------------------------------------------------------------------

NextMarkAll ==
  \/ GetDiffResolve(DiffAB)
  \/ ToggleViaKey(MaxUndoDepth)
  \/ \E f \in ViewFilters : SetFilter(f)
  \/ markAllViewed
  \/ markAllUnviewed
  \/ \E k \in ViewKeys : toggleFileCollapsed(k)

SpecMarkAll == Init /\ [][NextMarkAll]_vars

\* C5: after markAllViewed every one of the N files of the diff counts as
\* viewed (its stored hash is the hash of its current text) and is collapsed.
C5_MarkAllViewed ==
  lastOp.op = "markAllViewed"
    => \A i \in Records :
         /\ Lookup(viewedFiles, allFileDiffs[i].key).viewed
         /\ Lookup(viewedFiles, allFileDiffs[i].key).contentHash
              = hashStringOf(allFileDiffs[i].diffText)
         /\ allFileDiffs[i].key \in DOMAIN collapsedByFileKey
         /\ collapsedByFileKey[allFileDiffs[i].key]

\* C24: markAllViewed and markAllUnviewed leave the stored entry of every file
\* outside the displayed (filtered) list as it was before the call.
C24_MarkAllFrame ==
  lastOp.op \in {"markAllViewed", "markAllUnviewed"}
    => \A k \in (DOMAIN lastOp.storeBefore) \ lastOp.listedKeys :
         Lookup(viewedFiles, k) = Lookup(lastOp.storeBefore, k)

\* ---------------------------------------------------------------------------
\* compareTaskIds (part_003 lines 205-212)
\* ---------------------------------------------------------------------------

\* the value of a run of decimal digits
RECURSIVE DigitsValue(_, _)
DigitsValue(s, acc) ==
  IF Len(s) = 0 \/ ~IsDigit(CharAt(s, 1)) THEN acc
  ELSE DigitsValue(Slice(s, 1), acc * 10 + (charCodeAt(CharAt(s, 1)) - 48))

\* parseInt(s, 10): leading white space and a sign are skipped, the longest
\* run of digits that follows is the value, NaN when there is no digit
parseInt(s) ==
  LET t      == TrimStart(s)
      signed == Len(t) > 0 /\ CharAt(t, 1) \in {"-", "+"}
      body   == IF signed THEN Slice(t, 1) ELSE t
  IN  IF Len(body) = 0 \/ ~IsDigit(CharAt(body, 1)) THEN [isNaN |-> TRUE, value |-> 0]
      ELSE [isNaN |-> FALSE,
            value |-> IF signed /\ CharAt(t, 1) = "-"
                        THEN 0 - DigitsValue(body, 0) ELSE DigitsValue(body, 0)]

\* Number(s) is an integer: the whole of s is a run of digits
parsesFullyAsInteger(s) == Len(s) > 0 /\ \A i \in 1..Len(s) : IsDigit(CharAt(s, i))

\* the collation rank of a character: digits before lower-case letters
Rank(c) == CHOOSE i \in 1..Len(DigitChars) : CharAt(DigitChars, i) = c

\* a.localeCompare(b) for strings of digits and lower-case letters: -1, 0 or 1
RECURSIVE localeCompare(_, _)
localeCompare(a, b) ==
  IF Len(a) = 0 /\ Len(b) = 0 THEN 0
  ELSE IF Len(a) = 0 THEN -1
  ELSE IF Len(b) = 0 THEN 1
  ELSE IF Rank(CharAt(a, 1)) < Rank(CharAt(b, 1)) THEN -1
  ELSE IF Rank(CharAt(a, 1)) > Rank(CharAt(b, 1)) THEN 1
  ELSE localeCompare(Slice(a, 1), Slice(b, 1))

compareTaskIds(a, b) ==
  IF ~parseInt(a).isNaN /\ ~parseInt(b).isNaN
    THEN parseInt(a).value - parseInt(b).value
    ELSE localeCompare(a, b)

Sign(n) == IF n < 0 THEN -1 ELSE IF n > 0 THEN 1 ELSE 0

\* the ids compared: one or two characters out of 0, 1, 2 and a
CmpChars == {"0", "1", "2", "a"}
CmpStrings == CmpChars \cup {c \o d : c \in CmpChars, d \in CmpChars}

\* a call compareTaskIds(a, b), as the sort of the task lists makes it
Compare(a, b) ==
  /\ cmpA' = a
  /\ cmpB' = b
  /\ cmpResult' = compareTaskIds(a, b)
  /\ UNCHANGED <<viewVars, propVars, subChatVars, splitVars, sizeVars, termVars>>

NextCmp == \E a \in CmpStrings, b \in CmpStrings : Compare(a, b)

SpecCmp == Init /\ [][NextCmp]_vars

\* C7: two keys are ordered numerically when both parse fully as integers
\* and lexicographically otherwise, so "2" is before "10" and "10" is before
\* "2a".
C7_ComparatorOrder ==
  IF parsesFullyAsInteger(cmpA) /\ parsesFullyAsInteger(cmpB)
    THEN Sign(cmpResult) = Sign(DigitsValue(cmpA, 0) - DigitsValue(cmpB, 0))
    ELSE Sign(cmpResult) = localeCompare(cmpA, cmpB)

\* ---------------------------------------------------------------------------
\* SpecNav: three files "1", "10", "2"; toggles from the cards and the V key,
\* undo and mark-all-viewed
\* ---------------------------------------------------------------------------

NavKeys == {"1->1", "10->10", "2->2"}
NavPrefetched == [k \in NavKeys |-> "o"]

InitNav == InitView(NavPrefetched) /\ InitSubChats /\ InitCmp

NextNav ==
  \/ GetDiffResolve(DiffNav)
  \/ \E k \in NavKeys : ToggleViaCard(k, MaxUndoDepthNav)
  \/ ToggleViaKey(MaxUndoDepthNav)
  \/ markAllViewed

SpecNav == InitNav /\ [][NextNav]_vars

\* record i does not count as viewed in the store
StillUnviewed(i) ==
  ~(/\ Lookup(viewedFiles, allFileDiffs[i].key).viewed
    /\ Lookup(viewedFiles, allFileDiffs[i].key).contentHash
         = hashStringOf(allFileDiffs[i].diffText))

\* the record navigation has to choose when the records are walked in the
\* cyclic order given by pos (a bijection onto 1..N) from record cur on;
\* 0 when no record is left unviewed
FirstUnviewedFrom(cur, pos) ==
  LET N       == Len(allFileDiffs)
      Dist(i) == (pos[i] - pos[cur] + N) % N
      U       == {i \in Records : StillUnviewed(i) /\ i # cur}
  IN  IF U = {} THEN 0 ELSE CHOOSE i \in U : \A j \in U : Dist(i) <= Dist(j)

\* the position of each record when the keys are sorted by compareTaskIds
ComparatorOrder ==
  [i \in Records |->
     1 + Cardinality({j \in Records :
                        compareTaskIds(allFileDiffs[j].key, allFileDiffs[i].key) < 0})]

MarkedViewed == lastOp.op = "toggle" /\ lastOp.willBeViewed /\ Len(allFileDiffs) > 0

NextFetch ==
  \/ \E d \in ViewDiffs : GetDiffResolve(d)
  \/ GetDiffReject
  \/ handleRefresh
  \/ \E k \in ViewKeys : handleDiscardFile(k)
  \/ handleConfirmDiscard
  \/ DiscardResolve
  \/ DiscardReject

SpecFetch == Init /\ [][NextFetch]_vars

\* C10: whenever the diff query that completed last succeeded, the view is
\* not in the error state.
C10_NoErrorAfterSuccess ==
  lastFetch = "ok"
    => Branch(isLoadingDiff, isLoadingFileContents, diffError, fileDiffs) # "error"
\* ---------------------------------------------------------------------------
\* SpecContents: the view mounted without prefetched contents; the batch
\* query of the contents effect, prefetched contents arriving later, and the
\* refresh that follows a discard
\* ---------------------------------------------------------------------------

\* what a file read returns
ContentValues == {"o", "n"}

\* readMultipleWorkingFiles answers: the files in okKeys were read, each with
\* the content given, the others have ok = false (lines 1568-1581, 1619-1621)
ContentsResolve(okKeys, content) ==
  /\ pendingContentQuery.active
  /\ okKeys \subseteq pendingContentQuery.keys
  /\ lastOp' = [Op("contents") EXCEPT !.contentsBefore = fileContents, !.returned = okKeys]
  /\ Render(diff, isLoadingDiff, diffError, filteredDiffFiles, collapsedByFileKey, viewedFiles,
            [k \in okKeys |-> content], FALSE, NoQuery)
  /\ UNCHANGED <<subChatVars, pureVars, propVars, chatId, discardFilePath, viewedUndoStackRef,
                 pendingDiffQueries, pendingDiscards, lastFetch, newestQuery>>

\* the batch query throws: only the loading flag is reset (lines 1616-1621)
ContentsReject ==
  /\ pendingContentQuery.active
  /\ lastOp' = [Op("contentsFailed") EXCEPT !.contentsBefore = fileContents]
  /\ Render(diff, isLoadingDiff, diffError, filteredDiffFiles, collapsedByFileKey, viewedFiles,
            fileContents, FALSE, NoQuery)
  /\ UNCHANGED <<subChatVars, pureVars, propVars, chatId, discardFilePath, viewedUndoStackRef,
                 pendingDiffQueries, pendingDiscards, lastFetch, newestQuery>>

\* the parent passes a new prefetchedFileContents (lines 1000-1008)
PrefetchedArrive(prefetchedFileContents) ==
  /\ lastOp' = [Op("prefetched") EXCEPT !.contentsBefore = fileContents,
                                        !.returned = DOMAIN prefetchedFileContents]
  /\ Render(diff, isLoadingDiff, diffError, filteredDiffFiles, collapsedByFileKey, viewedFiles,
            IF Cardinality(DOMAIN prefetchedFileContents) > 0
              THEN prefetchedFileContents ELSE fileContents,
            isLoadingFileContents, pendingContentQuery)
  /\ UNCHANGED <<subChatVars, pureVars, propVars, chatId, discardFilePath, viewedUndoStackRef,
                 pendingDiffQueries, pendingDiscards, lastFetch, newestQuery>>

InitContents == InitView(<<>>) /\ InitSubChats /\ InitCmp

NextContents ==
  \/ \E d \in ViewDiffs : GetDiffResolve(d)
  \/ \E k \in ViewKeys : handleDiscardFile(k)
  \/ handleConfirmDiscard
  \/ DiscardResolve
  \/ \E okKeys \in SUBSET ViewKeys, content \in ContentValues : ContentsResolve(okKeys, content)
  \/ ContentsReject
  \/ \E ks \in SUBSET ViewKeys, content \in ContentValues :
       PrefetchedArrive([k \in ks |-> content])

SpecContents == InitContents /\ [][NextContents]_vars

\* C9: every key that had content before a batch of contents arrived and is
\* not returned by that batch still maps to its previous content afterwards.
C9_ContentsMerged ==
  lastOp.op \in {"contents", "contentsFailed", "prefetched"}
    => \A k \in DOMAIN lastOp.contentsBefore \ lastOp.returned :
         k \in DOMAIN fileContents /\ fileContents[k] = lastOp.contentsBefore[k]
\* ---------------------------------------------------------------------------
\* the sub-chat store (part_004): tabs of the current chat, saved to
\* localStorage under keys scoped by window
\* ---------------------------------------------------------------------------

SubChatIds == {"s1", "s2"}

\* getWindowId() of the main window
WindowId == "main"

getLegacyStorageKey(c, type) == "agent-" \o type \o "-sub-chats-" \o c

\* JSON.stringify of a string, of a string or null, of an array of strings
StringifyString(str) == "\"" \o str \o "\""
StringifyNullable(v) == IF v.isNull THEN "null" ELSE StringifyString(v.str)

RECURSIVE StringifyItems(_)
StringifyItems(ids) ==
  IF Len(ids) = 0 THEN ""
  ELSE IF Len(ids) = 1 THEN StringifyString(ids[1])
  ELSE StringifyString(ids[1]) \o "," \o StringifyItems(Tail(ids))

StringifyArray(ids) == "[" \o StringifyItems(ids) \o "]"

\* JSON.parse of what the three stringify operators write
ParseString(text) == SubSeq(text, 2, Len(text) - 1)
ParseNullable(text) == IF text = "null" THEN NullStr ELSE Str(ParseString(text))

RECURSIVE ParseItems(_, _)
ParseItems(text, item) ==
  IF Len(text) = 0 THEN (IF Len(item) = 0 THEN <<>> ELSE <<ParseString(item)>>)
  ELSE IF CharAt(text, 1) = "," THEN <<ParseString(item)>> \o ParseItems(Slice(text, 1), "")
  ELSE ParseItems(Slice(text, 1), item \o CharAt(text, 1))

ParseArray(text) == ParseItems(SubSeq(text, 2, Len(text) - 1), "")

getStorageKeyShared(c, type) == WindowId \o ":agent-" \o type \o "-sub-chats-"

getStorageKey(c, type) == WindowId \o ":agent-" \o type \o "-sub-chats-" \o c

\* localStorage.setItem
saveToLS(ls, c, type, text) == Put(ls, getStorageKey(c, type), text)

\* the keys matching /^(\d+):(.+)$/ whose second group is legacyKey
NumericWindowIdKeys(ls, legacyKey) ==
  {k \in DOMAIN ls :
     \E i \in 2..Len(k) :
       /\ \A j \in 1..(i - 1) : IsDigit(CharAt(k, j))
       /\ CharAt(k, i) = ":"
       /\ Slice(k, i) = legacyKey}

\* loadFromLS: the texts it may read (the one stored under the key, else one
\* migrated from a numeric window id, else the legacy one) with the storage
\* it leaves; found is FALSE when the fallback is returned
loadFromLS(ls, c, type) ==
  LET key       == getStorageKey(c, type)
      legacyKey == getLegacyStorageKey(c, type)
      numeric   == IF StartsWith(key, "main:") THEN NumericWindowIdKeys(ls, legacyKey) ELSE {}
  IN  IF key \in DOMAIN ls
        THEN {[found |-> ls[key] # "", text |-> ls[key], ls |-> ls]}
      ELSE IF numeric # {}
        THEN {[found |-> ls[k] # "", text |-> ls[k], ls |-> Put(ls, key, ls[k])] : k \in numeric}
      ELSE IF legacyKey \in DOMAIN ls
        THEN {[found |-> ls[legacyKey] # "", text |-> ls[legacyKey],
               ls |-> Put(ls, key, ls[legacyKey])]}
      ELSE {[found |-> FALSE, text |-> "", ls |-> ls]}

\* what the store actions leave alone in the view
viewState ==
  <<chatId, diff, isLoadingDiff, diffError, discardFilePath, filteredDiffFiles, allFileDiffs,
    collapsedByFileKey, prevFileKeysRef, viewedFilesAtom, viewedUndoStackRef, fileContents,
    isLoadingFileContents, cards, pendingDiffQueries, pendingDiscards, pendingContentQuery,
    lastFetch, newestQuery, isExpandingRef, expandTimers, expandRuns, prevStatsRef>>

\* lastOp of a store action: the chat it ran under
StoreOp(name) == [Op(name) EXCEPT !.session = subChatStore.chatId]

\* setChatId(null) (lines 132-142)
setChatIdNull ==
  /\ subChatStore' = [chatId |-> NullStr, activeSubChatId |-> NullStr,
                      openSubChatIds |-> <<>>, pinnedSubChatIds |-> <<>>, allSubChats |-> <<>>]
  /\ lastOp' = StoreOp("setChatIdNull")
  /\ UNCHANGED <<viewState, propVars, pureVars, localStorage, snapshotHistoryCache>>

\* setChatId(c) (lines 144-151)
setChatId(c) ==
  \E open \in loadFromLS(localStorage, c, "open") :
    \E active \in loadFromLS(open.ls, c, "active") :
      \E pinned \in loadFromLS(active.ls, c, "pinned") :
        /\ subChatStore' =
             [chatId           |-> Str(c),
              openSubChatIds   |-> IF open.found THEN ParseArray(open.text) ELSE <<>>,
              activeSubChatId  |-> IF active.found THEN ParseNullable(active.text) ELSE NullStr,
              pinnedSubChatIds |-> IF pinned.found THEN ParseArray(pinned.text) ELSE <<>>,
              allSubChats      |-> <<>>]
        /\ localStorage' = pinned.ls
        /\ lastOp' = StoreOp("setChatId")
        /\ UNCHANGED <<viewState, propVars, pureVars, snapshotHistoryCache>>

\* what a store action saves: nothing when no chat is set
SaveIfChat(ls, type, text) ==
  IF subChatStore.chatId.isNull THEN ls ELSE saveToLS(ls, subChatStore.chatId.str, type, text)

\* setActiveSubChat (lines 153-157)
setActiveSubChat(subChatId) ==
  /\ subChatStore' = [subChatStore EXCEPT !.activeSubChatId = Str(subChatId)]
  /\ localStorage' = SaveIfChat(localStorage, "active", StringifyNullable(Str(subChatId)))
  /\ lastOp' = StoreOp("setActiveSubChat")
  /\ UNCHANGED <<viewState, propVars, pureVars, snapshotHistoryCache>>

\* setOpenSubChats (lines 159-163)
setOpenSubChats(subChatIds) ==
  /\ subChatStore' = [subChatStore EXCEPT !.openSubChatIds = subChatIds]
  /\ localStorage' = SaveIfChat(localStorage, "open", StringifyArray(subChatIds))
  /\ lastOp' = StoreOp("setOpenSubChats")
  /\ UNCHANGED <<viewState, propVars, pureVars, snapshotHistoryCache>>

SeqIncludes(ids, id) == \E i \in 1..Len(ids) : ids[i] = id
SeqWithout(ids, id) == SelectSeq(ids, LAMBDA x : x # id)

\* addToOpenSubChats (lines 165-171)
addToOpenSubChats(subChatId) ==
  /\ ~SeqIncludes(subChatStore.openSubChatIds, subChatId)
  /\ subChatStore' = [subChatStore EXCEPT !.openSubChatIds = Append(@, subChatId)]
  /\ localStorage' = SaveIfChat(localStorage, "open",
                                StringifyArray(Append(subChatStore.openSubChatIds, subChatId)))
  /\ lastOp' = StoreOp("addToOpenSubChats")
  /\ UNCHANGED <<viewState, propVars, pureVars, snapshotHistoryCache>>

\* clearTaskSnapshotCache (part_003 lines 69-72)
clearTaskSnapshotCacheNoop(cache, subChatId) == cache

clearTaskSnapshotCache(cache, subChatId) == cache \ {subChatId}

\* removeFromOpenSubChats (lines 172-194); of its clean-up calls the task
\* snapshot cache is the one held here
removeFromOpenSubChats(subChatId) ==
  LET newIds    == SeqWithout(subChatStore.openSubChatIds, subChatId)
      newActive == IF subChatStore.activeSubChatId = Str(subChatId)
                     THEN (IF Len(newIds) > 0 /\ newIds[Len(newIds)] # ""
                             THEN Str(newIds[Len(newIds)]) ELSE NullStr)
                     ELSE subChatStore.activeSubChatId
  IN  /\ subChatStore' = [subChatStore EXCEPT !.openSubChatIds = newIds,
                                                !.activeSubChatId = newActive]
      /\ localStorage' =
           SaveIfChat(SaveIfChat(localStorage, "open", StringifyArray(newIds)),
                      "active", StringifyNullable(newActive))
      /\ snapshotHistoryCache' = clearTaskSnapshotCache(snapshotHistoryCache, subChatId)
      /\ lastOp' = [StoreOp("removeFromOpenSubChats") EXCEPT
                      !.fileKey = subChatId,
                      !.storeBefore = [store |-> subChatStore, cache |-> snapshotHistoryCache]]
      /\ UNCHANGED <<viewState, propVars, pureVars>>

\* togglePinSubChat (lines 196-204)
togglePinSubChat(subChatId) ==
  LET newPinnedIds == IF SeqIncludes(subChatStore.pinnedSubChatIds, subChatId)
                        THEN SeqWithout(subChatStore.pinnedSubChatIds, subChatId)
                        ELSE Append(subChatStore.pinnedSubChatIds, subChatId)
  IN  /\ subChatStore' = [subChatStore EXCEPT !.pinnedSubChatIds = newPinnedIds]
      /\ localStorage' = SaveIfChat(localStorage, "pinned", StringifyArray(newPinnedIds))
      /\ lastOp' = StoreOp("togglePinSubChat")
      /\ UNCHANGED <<viewState, propVars, pureVars, snapshotHistoryCache>>

\* reset (lines 253-261)
reset ==
  /\ subChatStore' = [chatId |-> NullStr, activeSubChatId |-> NullStr,
                      openSubChatIds |-> <<>>, pinnedSubChatIds |-> <<>>, allSubChats |-> <<>>]
  /\ lastOp' = StoreOp("reset")
  /\ UNCHANGED <<viewState, propVars, pureVars, localStorage, snapshotHistoryCache>>

\* a task tool group of the sub-chat is rendered: its snapshot is cached
\* (part_003 lines 790-822)
CacheTaskSnapshot(subChatId) ==
  /\ SeqIncludes(subChatStore.openSubChatIds, subChatId)
  /\ snapshotHistoryCache' = snapshotHistoryCache \cup {subChatId}
  /\ lastOp' = StoreOp("cacheTaskSnapshot")
  /\ UNCHANGED <<viewState, propVars, pureVars, subChatStore, localStorage>>

\* ---------------------------------------------------------------------------
\* SpecClose: the tabs of the sub-chat store next to a view that holds viewed
\* state for chat c1
\* ---------------------------------------------------------------------------

NextClose ==
  \/ GetDiffResolve(DiffAB)
  \/ ToggleViaKey(MaxUndoDepth)
  \/ \E c \in ChatIds : setChatId(c)
  \/ setChatIdNull
  \/ \E x \in SubChatIds : addToOpenSubChats(x)
  \/ \E x \in SubChatIds : removeFromOpenSubChats(x)
  \/ \E x \in SubChatIds : CacheTaskSnapshot(x)

SpecClose == Init /\ [][NextClose]_vars

\* C8: after the chat or a sub-chat of it is closed, the viewed-state map
\* stored for that chat holds no entry.
C8_ViewedStateDropped ==
  (lastOp.op \in {"removeFromOpenSubChats", "setChatIdNull"} /\ ~lastOp.session.isNull)
    => viewedFilesAtom[lastOp.session.str] = <<>>

\* ---------------------------------------------------------------------------
\* SpecEmpty: the view mounted with or without the props initialDiff and
\* initialParsedFiles, and diff queries that may answer with an empty diff
\* ---------------------------------------------------------------------------

NullDiff == [kind |-> "null", str |-> ""]
StringDiff(str) == [kind |-> "string", str |-> str]
NullFiles == [kind |-> "null", files |-> <<>>]
ArrayFiles(files) == [kind |-> "array", files |-> files]

\* what the parent passes: nothing, a diff text, or a diff still loading
\* (null) with or without the files it has parsed
PropsGiven ==
  {<<UndefinedDiff, UndefinedFiles>>,
   <<StringDiff(""), UndefinedFiles>>,
   <<StringDiff(""), ArrayFiles(<<>>)>>,
   <<StringDiff(DiffAB), UndefinedFiles>>,
   <<StringDiff(DiffAB), ArrayFiles(ParsedDiffText[DiffAB])>>,
   <<NullDiff, UndefinedFiles>>,
   <<NullDiff, NullFiles>>,
   <<NullDiff, ArrayFiles(<<>>)>>,
   <<NullDiff, ArrayFiles(ParsedDiffText[DiffAB])>>}

\* initialDiff === null && !Array.isArray(initialParsedFiles)
parentStillLoading == initialDiff.kind = "null" /\ initialParsedFiles.kind # "array"

\* the first render, before its effects have run (lines 954-998, 1135-1185)
\* the state of the first render, for the props given
FirstRenderState ==
  /\ chatId = "c1"
  /\ diff = IF initialDiff.kind = "string" THEN Str(initialDiff.str) ELSE NullStr
  /\ isLoadingDiff = (initialDiff.kind = "undefined" \/ parentStillLoading)
  /\ diffError = NullStr
  /\ discardFilePath = NullStr
  /\ filteredDiffFiles = NullList
  /\ allFileDiffs = allFileDiffsOf(diff)
  /\ collapsedByFileKey = <<>>
  /\ prevFileKeysRef = ""
  /\ isExpandingRef = FALSE
  /\ expandTimers = <<>>
  /\ expandRuns = 0
  /\ prevStatsRef = NullStats
  /\ viewedFilesAtom = [c \in ChatIds |-> <<>>]
  /\ viewedUndoStackRef = <<>>
  /\ fileContents = <<>>
  /\ isLoadingFileContents = FALSE
  /\ cards = RenderCards(<<>>, fileDiffsOf(allFileDiffs, NullList), isLoadingDiff, NullStr,
                         <<>>, <<>>, <<>>, FALSE, allFileDiffs)
  /\ pendingDiffQueries = 0
  /\ pendingDiscards = 0
  /\ pendingContentQuery = NoQuery
  /\ lastFetch = "none"
  /\ newestQuery = NoQueryIssued
  /\ lastOp = Op("firstRender")

InitFirstRender ==
  /\ \E p \in PropsGiven : initialDiff = p[1] /\ initialParsedFiles = p[2]
  /\ FirstRenderState

InitEmpty == InitFirstRender /\ InitSubChats /\ InitCmp

\* the effects of the first render: the diff is fetched when initialDiff is
\* not passed, and taken from the prop otherwise (lines 1021-1084); the
\* effects on fileDiffs run for the first time
MountEffects ==
  /\ lastOp.op = "firstRender"
  /\ lastOp' = Op("mount")
  /\ pendingDiffQueries' = IF initialDiff.kind = "undefined" THEN 1 ELSE 0
  /\ newestQuery' = IF initialDiff.kind = "undefined" THEN QueryInFlight ELSE NoQueryIssued
  /\ RenderEffects(TRUE,
                   IF initialDiff.kind = "string" THEN Str(initialDiff.str) ELSE NullStr,
                   IF initialDiff.kind = "undefined" THEN TRUE ELSE parentStillLoading,
                   diffError, filteredDiffFiles, collapsedByFileKey, viewedFiles,
                   fileContents, isLoadingFileContents, pendingContentQuery)
  /\ UNCHANGED <<subChatVars, pureVars, propVars, chatId, discardFilePath, viewedUndoStackRef,
                 pendingDiscards, lastFetch>>

\* the diff texts a query may answer with, the empty one among them
EmptyOrDiff == {"", DiffAB}

NextEmpty ==
  \/ MountEffects
  \/ /\ lastOp.op # "firstRender"
     /\ \/ \E d \in EmptyOrDiff : GetDiffResolve(d)
        \/ GetDiffReject
        \/ handleRefresh
        \/ \E k \in ViewKeys : handleDiscardFile(k)
        \/ handleConfirmDiscard
        \/ DiscardResolve
        \/ \E okKeys \in SUBSET ViewKeys : ContentsResolve(okKeys, "o")

SpecEmpty == InitEmpty /\ [][NextEmpty]_vars

\* the branch of the content area in the current state
CurrentBranch == Branch(isLoadingDiff, isLoadingFileContents, diffError, fileDiffs)

\* C11: an empty-string diff yields zero records and is shown as "no changes"
\* (not loading, no error); a diff that is null because it is not loaded yet
\* is shown as loading; the two are never conflated.  (Records the parent
\* passes in initialParsedFiles are left aside.)
C11_EmptyVersusLoading ==
  /\ (~diff.isNull /\ diff.str = "" /\ Len(initialParsedFiles.files) = 0)
       => (allFileDiffs = <<>> /\ CurrentBranch = "empty")
  /\ (diff.isNull /\ initialParsedFiles.kind # "array")
       => CurrentBranch \in {"spinner", "error"}

\* ---------------------------------------------------------------------------
\* SpecSplit: splitUnifiedDiffByFile applied to texts made of one to three
\* blocks
\* ---------------------------------------------------------------------------

\* a modified file
BlockModify == "diff --git a/x b/x\n--- a/x\n+++ b/x\n@@ -1,1 +1,1 @@\n-o\n+n"
\* the two marker lines alone, and with a hunk header appended
BlockNoHunk == "--- a/x\n+++ b/x"
BlockOneHunk == "--- a/x\n+++ b/x\n@@ -1,1 +1,1 @@"
BlockGitNoHunk == "diff --git a/x b/x\n--- a/x\n+++ b/x"
\* a hunk header that is cut short, one before the new-file marker, and the
\* markers in the wrong order
BlockBadHunk == "diff --git a/x b/x\n--- a/x\n+++ b/x\n@@ -1,1 +1 @"
BlockHunkBeforePlus == "diff --git a/x b/x\n--- a/x\n@@ -1 +1 @@\n+++ b/x"
BlockPlusFirst == "+++ b/x\n--- a/x\n@@ -1 +1 @@"
\* binary files, with and without the header and the markers
BlockBinary == "diff --git a/i b/i\nBinary files a/i and b/i differ"
BlockBinaryBare == "Binary files a/i and b/i differ"
BlockBinaryMarkers == "diff --git a/i b/i\n--- a/i\n+++ b/i\nBinary files a/i and b/i differ"
\* a mode change alone, a mode change with an edit, a rename alone
BlockMode == "diff --git a/s b/s\nold mode 100644\nnew mode 100755"
BlockModeEdit ==
  "diff --git a/s b/s\nold mode 100644\nnew mode 100755\n--- a/s\n+++ b/s\n@@ -1 +1 @@\n-o\n+n"
BlockRename == "diff --git a/p b/q\nsimilarity index 100%\nrename from p\nrename to q"
\* the line "-- c" is deleted and the line "++ d" is added
BlockComment == "diff --git a/q b/q\n--- a/q\n+++ b/q\n@@ -1,1 +1,1 @@\n--- c\n+++ d"
\* a new file
BlockNew == "diff --git a/n b/n\nnew file mode 100644\n--- /dev/null\n+++ b/n\n@@ -0,0 +1 @@\n+n"
\* text that is no diff
BlockJunk == "index 1..2"
\* an old-file marker after a line that is no marker, and nothing else
BlockOldMarkerLate == "index 1..2\n--- a/x"

SplitBlockTexts ==
  {BlockModify, BlockNoHunk, BlockOneHunk, BlockGitNoHunk, BlockBadHunk, BlockHunkBeforePlus,
   BlockPlusFirst, BlockBinary, BlockBinaryBare, BlockBinaryMarkers, BlockMode, BlockModeEdit,
   BlockRename, BlockComment, BlockNew, BlockJunk, BlockOldMarkerLate}

\* the blocks three of which are put together
SplitTripleTexts == {BlockModify, BlockBinary, BlockMode}

SplitBlockSeqs ==
  {<<b>> : b \in SplitBlockTexts}
    \cup {<<b, c>> : b \in SplitBlockTexts, c \in SplitBlockTexts}
    \cup {<<b, c, d>> : b \in SplitTripleTexts, c \in SplitTripleTexts, d \in SplitTripleTexts}

InitSplit ==
  /\ InitView(ViewPrefetched) /\ InitSubChats /\ InitCmpIdle /\ InitSizeIdle /\ InitTerminals
  /\ splitBlocks \in SplitBlockSeqs
  /\ splitInput = JoinLines(splitBlocks)
  /\ splitOutput = <<>>
  /\ splitDone = FALSE

\* the call splitUnifiedDiffByFile(splitInput)
Split ==
  /\ ~splitDone
  /\ splitDone' = TRUE
  /\ splitOutput' = splitUnifiedDiffByFile(splitInput)
  /\ UNCHANGED <<viewVars, propVars, subChatVars, cmpVars, sizeVars, termVars, splitBlocks, splitInput>>

NextSplit == Split

SpecSplit == InitSplit /\ [][NextSplit]_vars

SplitRecords == 1..Len(splitOutput)

\* the lines of a block other than its first line with the prefix
LinesButMarker(blockLines, prefix) ==
  {i \in 1..Len(blockLines) :
     ~(StartsWith(blockLines[i], prefix)
         /\ \A j \in 1..(i - 1) : ~StartsWith(blockLines[j], prefix))}

\* C12: for every record, additions is the number of lines of its block that
\* start with '+' other than the '+++' new-file marker line, and deletions the
\* number of lines that start with '-' other than the '---' old-file marker
\* line.
C12_Counts ==
  splitDone =>
    \A r \in SplitRecords :
      LET blockLines == SplitLines(splitOutput[r].diffText)
      IN  /\ splitOutput[r].additions =
               Cardinality({i \in LinesButMarker(blockLines, "+++ ") :
                              StartsWith(blockLines[i], "+")})
          /\ splitOutput[r].deletions =
               Cardinality({i \in LinesButMarker(blockLines, "--- ") :
                              StartsWith(blockLines[i], "-")})

\* a number: one or more digits
IsNumber(s) == Len(s) > 0 /\ \A i \in 1..Len(s) : IsDigit(CharAt(s, i))

\* n or n,n
IsRange(s) ==
  \/ IsNumber(s)
  \/ \E k \in 2..(Len(s) - 1) :
       /\ CharAt(s, k) = ","
       /\ IsNumber(SubSeq(s, 1, k - 1))
       /\ IsNumber(SubSeq(s, k + 1, Len(s)))

\* a line of the form '@@ -n[,n] +n[,n] @@', whatever follows it on the line
IsHunkHeaderLine(line) ==
  \E p \in 5..(Len(line) - 2) : \E q \in (p + 3)..(Len(line) - 3) :
    /\ SubSeq(line, 1, 4) = "@@ -"
    /\ IsRange(SubSeq(line, 5, p))
    /\ SubSeq(line, p + 1, p + 2) = " +"
    /\ IsRange(SubSeq(line, p + 3, q))
    /\ SubSeq(line, q + 1, q + 3) = " @@"

\* the positions of the lines of a block that start with the prefix
MarkerLines(blockLines, prefix) ==
  {i \in 1..Len(blockLines) : StartsWith(blockLines[i], prefix)}

\* the block signals a mode change, a rename or binary content
SignalsNoHunks(text) ==
  \E w \in {"old mode", "new mode", "rename from", "rename to", "Binary files"} : Includes(text, w)

\* what C13 requires of a valid block
WellFormedBlock(text) ==
  LET blockLines == SplitLines(text)
      olds       == MarkerLines(blockLines, "--- ")
      news       == MarkerLines(blockLines, "+++ ")
  IN  /\ Trim(text) # ""
      /\ olds # {} /\ news # {}
      /\ \E o \in olds : \E n \in news :
           /\ \A i \in olds : o <= i
           /\ \A i \in news : n <= i
           /\ o < n
           /\ \/ SignalsNoHunks(text)
              \/ \E h \in (n + 1)..Len(blockLines) : IsHunkHeaderLine(blockLines[h])

\* C13: a non-binary record is valid exactly when its block is non-empty after
\* trimming, has an old-file and a new-file marker line with the new-file
\* marker strictly after the old-file marker and, unless it signals a mode
\* change, a rename or binary content, has a hunk-header line
\* '@@ -n[,n] +n[,n] @@' after the new-file marker; the block '--- a/x',
\* '+++ b/x' is invalid and is valid once '@@ -1,1 +1,1 @@' is appended.
C13_ValidIffWellFormed ==
  splitDone =>
    /\ \A r \in SplitRecords :
         ~splitOutput[r].isBinary =>
           (splitOutput[r].isValid <=> WellFormedBlock(splitOutput[r].diffText))
    /\ splitBlocks = <<BlockNoHunk>> => (Len(splitOutput) = 1 /\ ~splitOutput[1].isValid)
    /\ splitBlocks = <<BlockOneHunk>> => (Len(splitOutput) = 1 /\ splitOutput[1].isValid)

\* the markers alone are invalid, the hunk header appended makes the block valid
C13_Witness ==
  /\ splitDone
  /\ splitBlocks = <<BlockOneHunk>>
  /\ splitOutput[1].diffText = BlockNoHunk \o "\n@@ -1,1 +1,1 @@"
  /\ splitOutput[1].isValid
  /\ ~validateDiffHunk(BlockNoHunk)

\* a line 'Binary files <old> and <new> differ'
IsBinaryFilesLine(line) ==
  /\ StartsWith(line, "Binary files ")
  /\ EndsWith(line, " differ")
  /\ Len(line) >= Len("Binary files ") + Len(" and ") + Len(" differ")
  /\ Includes(SubSeq(line, Len("Binary files ") + 1, Len(line) - Len(" differ")), " and ")

HasBinaryFilesLine(text) ==
  LET blockLines == SplitLines(text)
  IN  \E i \in 1..Len(blockLines) : IsBinaryFilesLine(blockLines[i])

HasHunkHeaderLine(text) ==
  LET blockLines == SplitLines(text)
  IN  \E i \in 1..Len(blockLines) : IsHunkHeaderLine(blockLines[i])

\* C14: every block with a line 'Binary files <old> and <new> differ' yields
\* a record, and every record with such a line has isBinary = true and
\* isValid = true, whether or not it has hunk headers or marker lines.
C14_BinaryAlwaysValid ==
  splitDone =>
    /\ \A r \in SplitRecords :
         HasBinaryFilesLine(splitOutput[r].diffText)
           => (splitOutput[r].isBinary /\ splitOutput[r].isValid)
    /\ \A b \in 1..Len(splitBlocks) :
         HasBinaryFilesLine(splitBlocks[b])
           => \E r \in SplitRecords : Includes(splitOutput[r].diffText, splitBlocks[b])

\* a binary record without marker lines and without a hunk header
C14_Witness ==
  /\ splitDone
  /\ \E r \in SplitRecords :
       LET blockLines == SplitLines(splitOutput[r].diffText)
       IN  /\ HasBinaryFilesLine(splitOutput[r].diffText)
           /\ MarkerLines(blockLines, "--- ") = {}
           /\ MarkerLines(blockLines, "+++ ") = {}
           /\ ~HasHunkHeaderLine(splitOutput[r].diffText)
           /\ splitOutput[r].isBinary /\ splitOutput[r].isValid

\* the block signals a file-mode change or a rename
SignalsModeOrRename(text) ==
  \/ Includes(text, "old mode") \/ Includes(text, "new mode")
  \/ Includes(text, "rename from") \/ Includes(text, "rename to")

\* C15: every record whose block signals a file-mode change or a rename
\* ('old mode' / 'new mode', 'rename from' / 'rename to') has isValid = true
\* although the block has no hunk-header line.
C15_ModeOrRenameValid ==
  splitDone =>
    \A r \in SplitRecords :
      (SignalsModeOrRename(splitOutput[r].diffText) /\ ~HasHunkHeaderLine(splitOutput[r].diffText))
        => splitOutput[r].isValid

\* every block of the input begins with a 'diff --git ' header line
AllBlocksHaveGitHeader == \A b \in 1..Len(splitBlocks) : StartsWith(splitBlocks[b], "diff --git ")

\* C16: an input of k blocks that each begin with a 'diff --git ' header line
\* gives exactly k records, the i-th record being that of the i-th block; a
\* valid modify block followed by a binary-only block gives two records, the
\* first valid with the block's counts, the second binary and valid.
C16_OneRecordPerBlock ==
  splitDone =>
    /\ AllBlocksHaveGitHeader =>
         /\ Len(splitOutput) = Len(splitBlocks)
         /\ \A r \in SplitRecords : splitOutput[r].diffText = splitBlocks[r]
    /\ splitBlocks = <<BlockModify, BlockBinary>> =>
         /\ Len(splitOutput) = 2
         /\ splitOutput[1].isValid /\ ~splitOutput[1].isBinary
         /\ splitOutput[1].additions = 1 /\ splitOutput[1].deletions = 1
         /\ splitOutput[2].isBinary /\ splitOutput[2].isValid

\* the modify block and the binary-only block have been split into two records
C16_Witness ==
  /\ splitDone
  /\ splitBlocks = <<BlockModify, BlockBinary>>
  /\ Len(splitOutput) = 2
  /\ splitOutput[1].key = "x->x"
  /\ splitOutput[2].key = "file-1"

\* the candidate blocks of the input: the lines collected up to each line that
\* starts with 'diff --git ' and up to the end, joined
RECURSIVE CandidateBlocks(_, _, _, _)
CandidateBlocks(lines, i, cands, current) ==
  IF i > Len(lines) THEN Append(cands, JoinLines(current))
  ELSE IF StartsWith(lines[i], "diff --git ") /\ Len(current) > 0
    THEN CandidateBlocks(lines, i + 1, Append(cands, JoinLines(current)), <<lines[i]>>)
    ELSE CandidateBlocks(lines, i + 1, cands, Append(current, lines[i]))

\* the block has a line that is one of the four markers
HasDiffMarker(text) ==
  \E i \in 1..Len(SplitLines(text)) :
    \/ StartsWith(SplitLines(text)[i], "diff --git ")
    \/ StartsWith(SplitLines(text)[i], "--- ")
    \/ StartsWith(SplitLines(text)[i], "+++ ")
    \/ StartsWith(SplitLines(text)[i], "Binary files ")

SplitCandidates == CandidateBlocks(SplitLines(splitInput), 1, <<>>, <<>>)

\* C21: a candidate block is discarded if and only if it has no line that is
\* a 'diff --git ', '--- ', '+++ ' or 'Binary files ' marker: the records are
\* those of the candidate blocks with a marker, in order.
C21_DiscardIffNoMarker ==
  splitDone =>
    LET kept == SelectSeq(SplitCandidates, HasDiffMarker)
    IN  /\ Len(splitOutput) = Len(kept)
        /\ \A r \in SplitRecords : splitOutput[r].diffText = Trim(kept[r])

\* ---------------------------------------------------------------------------
\* SpecSize: estimateSize of the virtualizer on a list of one file with up to
\* MaxLines added and MaxLines deleted lines
\* ---------------------------------------------------------------------------

\* a row that shows the diff without its clamp
estimateSizeUnclamped(fds, index, c) ==
  IF index + 1 > Len(fds) THEN COLLAPSED_HEIGHT
  ELSE IF IsCollapsed(c, fds[index + 1].key) THEN COLLAPSED_HEIGHT
  ELSE (fds[index + 1].additions + fds[index + 1].deletions) * 22 + COLLAPSED_HEIGHT

\* estimateSize: (index) => ... of useVirtualizer; index counts from 0
estimateSize(fds, index, c) ==
  IF index + 1 > Len(fds) THEN COLLAPSED_HEIGHT
  ELSE IF IsCollapsed(c, fds[index + 1].key) THEN COLLAPSED_HEIGHT
  ELSE LET lineCount == fds[index + 1].additions + fds[index + 1].deletions
           linear    == lineCount * 22 + COLLAPSED_HEIGHT
           atLeast   == IF linear > 150 THEN linear ELSE 150
       IN  IF atLeast < 800 THEN atLeast ELSE 800

\* a record with the fields estimateSize reads
SizedFile(a, d) == [key |-> "x->x", additions |-> a, deletions |-> d]

\* collapsedByFileKey without the file, with the file expanded, and collapsed
SizeCollapsedMaps ==
  {<<>>, [k \in {"x->x"} |-> FALSE], [k \in {"x->x"} |-> TRUE]}

InitSize ==
  /\ InitView(ViewPrefetched) /\ InitSubChats /\ InitCmpIdle /\ InitSplitIdle /\ InitTerminals
  /\ \E a \in 0..MaxLines, d \in 0..MaxLines : estFiles = <<SizedFile(a, d)>>
  /\ estCollapsed \in SizeCollapsedMaps
  /\ estIndex \in {0, 1}
  /\ estResult = 0

\* the virtualizer asks for the height of row estIndex
EstimateSize ==
  /\ estResult = 0
  /\ estResult' = estimateSize(estFiles, estIndex, estCollapsed)
  /\ UNCHANGED <<viewVars, propVars, subChatVars, cmpVars, splitVars, termVars, estFiles, estCollapsed, estIndex>>

NextSize == EstimateSize

SpecSize == InitSize /\ [][NextSize]_vars

\* the row asked for is a file of the list, and its line count
EstimatedFile == estResult # 0 /\ estIndex = 0
EstLineCount == estFiles[1].additions + estFiles[1].deletions
EstIsCollapsed == "x->x" \in DOMAIN estCollapsed /\ estCollapsed["x->x"]

\* C22: the estimate is 44 for a collapsed file; for an expanded file it is
\* 22 * (additions + deletions) + 44 clamped to 150..800, it is within 150..800,
\* and it is not below the estimate of any expanded file with fewer lines.
C22_EstimatedHeight ==
  EstimatedFile =>
    /\ EstIsCollapsed => estResult = 44
    /\ ~EstIsCollapsed =>
         /\ estResult = (IF 22 * EstLineCount + 44 < 150 THEN 150
                         ELSE IF 22 * EstLineCount + 44 > 800 THEN 800
                         ELSE 22 * EstLineCount + 44)
         /\ 150 <= estResult /\ estResult <= 800
         /\ \A n \in 0..EstLineCount :
              estimateSize(<<SizedFile(n, 0)>>, 0, <<>>) <= estResult

\* an expanded file whose estimate lies strictly between the two clamps
C22_Witness ==
  /\ EstimatedFile /\ ~EstIsCollapsed
  /\ estFiles[1].additions = 6 /\ estFiles[1].deletions = 4
  /\ estResult = 264

\* ---------------------------------------------------------------------------
\* SpecStats: the stats reported to the parent, for diffs with and without a
\* binary file, with the filter set and cleared
\* ---------------------------------------------------------------------------

StatsDiffs == {"", DiffAB, DiffA2B, DiffWithBinary}

NextStats ==
  \/ \E d \in StatsDiffs : GetDiffResolve(d)
  \/ GetDiffReject
  \/ handleRefresh
  \/ \E f \in ViewFilters : SetFilter(f)
  \/ \E k \in ViewKeys : ToggleViaCard(k, MaxUndoDepth)
  \/ ToggleViaKey(MaxUndoDepth)

SpecStats == Init /\ [][NextStats]_vars

\* no filter is set and the onStatsChange effect of the last commit did not
\* return early for an empty list: the parent holds the stats of this render
StatsAreCurrent ==
  /\ filteredDiffFiles.isNull
  /\ ~prevStatsRef.isNull
  /\ ~(Len(allFileDiffs) = 0 /\ ~isLoadingDiff)

\* C23: when no path filter is set, the displayed list holds every record
\* parsed from the diff, and the fileCount reported to the parent is the
\* number of files displayed, binary-only records included.
C23_FileCountIsDisplayed ==
  StatsAreCurrent =>
    /\ fileDiffs = allFileDiffs
    /\ prevStatsRef.fileCount = Len(fileDiffs)

\* ---------------------------------------------------------------------------
\* SpecSession: files are toggled only while the view shows chat c1; the
\* parent switches the view between the chats; undo in either chat
\* ---------------------------------------------------------------------------

NextSession ==
  \/ GetDiffResolve(DiffAB)
  \/ (chatId = "c1" /\ ToggleViaKey(MaxUndoDepthUndo))
  \/ \E c \in ChatIds : SetChatIdProp(c)
  \/ undoLastViewed

SpecSession == Init /\ [][NextSession]_vars

\* C25: the toggles were all recorded while the view showed chat c1; an undo
\* made while the view shows chat c2 writes no entry into the store of c2.
C25_UndoStaysInSession ==
  (lastOp.op = "undo" /\ chatId = "c2") => viewedFilesAtom["c2"] = <<>>

\* C27: while a getDiff query is in flight the loading flag is set, and once
\* none is in flight the diff held is the result of the query issued last (if
\* that one succeeded), in whatever order the responses arrived.  Checked
\* under SpecFetch, where a second click on Discard makes two refreshes overlap.
C27_LatestFetchWins ==
  /\ pendingDiffQueries > 0 => isLoadingDiff
  /\ (pendingDiffQueries = 0 /\ newestQuery.state = "ok") => diff = Str(newestQuery.str)

\* ---------------------------------------------------------------------------
\* SpecStack: one file toggled until the undo stack is full and beyond, undo
\* down to the empty stack, mark-all-unviewed while the stack is short
\* ---------------------------------------------------------------------------

NextStack ==
  \/ GetDiffResolve(DiffOneFile)
  \/ ToggleViaCard("a->a", UndoLimit + 1)
  \/ ToggleViaKey(UndoLimit + 1)
  \/ undoLastViewed
  \/ undoLastViewedEmpty
  \/ (Len(viewedUndoStackRef) < MaxUndoDepthUndo /\ markAllUnviewed)

SpecStack == Init /\ [][NextStack]_vars

\* C18: the undo stack never holds more than 50 entries; a toggle leaves on
\* top of the stack the entry the store held for the file before the toggle
\* (or absent); an undo that finds the stack empty leaves it empty.
C18_UndoStack ==
  /\ Len(viewedUndoStackRef) <= 50
  /\ lastOp.op = "toggle" =>
       /\ Len(viewedUndoStackRef) > 0
       /\ viewedUndoStackRef[Len(viewedUndoStackRef)] =
            [fileKey |-> lastOp.fileKey, previousState |-> lastOp.preEntry]
  /\ lastOp.op = "undoEmpty" => Len(viewedUndoStackRef) = 0

\* the stack is full and its oldest entry is no longer the first toggle's
StackFullAndShifted ==
  /\ Len(viewedUndoStackRef) = UndoLimit
  /\ viewedUndoStackRef[1].previousState.defined

\* the text handleToggleViewed was called with: the current text of the file
ToggledText == FileOf(allFileDiffs, lastOp.fileKey).diffText

\* isViewed(f, t) for the entry the store held before the toggle
ViewedBeforeToggle ==
  /\ lastOp.preEntry.defined
  /\ lastOp.preEntry.viewed
  /\ lastOp.preEntry.contentHash = hashStringOf(ToggledText)

\* the toggle flips the effective viewed status of the file
ToggleFlips ==
  lastOp.op = "toggle" =>
    (isFileViewed(viewedFiles, lastOp.fileKey, ToggledText) <=> ~ViewedBeforeToggle)

\* a toggle of a file whose stored entry was viewed under another hash
ToggledStaleEntry ==
  /\ lastOp.op = "toggle"
  /\ lastOp.preEntry.defined /\ lastOp.preEntry.viewed
  /\ lastOp.preEntry.contentHash # hashStringOf(ToggledText)

\* C19: a toggle of file f with text t makes isViewed(f, t) the negation of
\* what it was before the call, also when the stored entry was viewed under a
\* stale hash, and the entry the store held for f before the call is the one
\* recorded on top of the undo stack.
C19_ToggleFlipsAndRecords ==
  lastOp.op = "toggle" =>
    /\ isFileViewed(viewedFiles, lastOp.fileKey, ToggledText) <=> ~ViewedBeforeToggle
    /\ Len(viewedUndoStackRef) > 0
    /\ viewedUndoStackRef[Len(viewedUndoStackRef)].fileKey = lastOp.fileKey
    /\ viewedUndoStackRef[Len(viewedUndoStackRef)].previousState = lastOp.preEntry

\* ---------------------------------------------------------------------------
\* SpecExpand: a view given more than ten parsed files, expandAll and its
\* batches, the auto-expand effect, the file filter, and collapse operations
\* while no expansion is under way
\* ---------------------------------------------------------------------------

ManyFiles ==
  [i \in 1..MaxFiles |-> ParseBlock(FileBlock("f" \o NatToString(i), "1"), i - 1)]

\* the filter that shows two of the files
FewFilter == List(<<"f1", "f7">>)

\* the cards whose header is clicked: one of each batch
ToggledKeys == {"f1->f1", "f6->f6", "f11->f11"}

InitExpand ==
  /\ initialDiff = NullDiff
  /\ initialParsedFiles = ArrayFiles(ManyFiles)
  /\ FirstRenderState
  /\ InitSubChats /\ InitCmp

ExpandBatchStep == \E i \in 1..MaxTimers : expandBatch(i)

NextExpand ==
  \/ MountEffects
  \/ /\ lastOp.op # "firstRender"
     /\ \/ expandAll
        \/ ExpandBatchStep
        \/ \E f \in {NullList, FewFilter} : SetFilter(f)
        \/ (Len(expandTimers) = 0 /\ collapseAll)
        \/ (Len(expandTimers) = 0 /\ \E k \in ToggledKeys : toggleFileCollapsed(k))

\* a scheduled animation frame and its timeout do run: weak fairness of
\* ExpandBatchStep, which is enabled exactly when a callback is waiting
FairBatches == []<>(Len(expandTimers) = 0) \/ []<><<ExpandBatchStep>>_vars

SpecExpand == InitExpand /\ [][NextExpand]_vars /\ FairBatches

\* the files whose card changes between collapsed and expanded in a step
CollapseChanged ==
  {k \in Keys(allFileDiffs) :
     IsCollapsed(collapsedByFileKey, k) # IsCollapsed(collapsedByFileKey', k)}

\* a step of an expansion over more than ten files changes at most one batch
ExpandStepIsOneBatch ==
  (\/ lastOp'.op = "expandBatch"
   \/ lastOp'.op \in {"expandAll", "mount", "setFilter"} /\ Len(fileDiffs') > ExpandAtOnceLimit)
    => Cardinality(CollapseChanged) <= 5

\* expandAll on ten files or fewer has expanded them all, and a batched
\* expansion that has run its last batch has expanded every file of its list
ExpandedWhenDone ==
  /\ (lastOp.op = "expandAll" /\ Len(lastOp.batchKeys) <= 10)
       => /\ lastOp.batch = 0
          /\ \A k \in Keys(fileDiffs) : ~IsCollapsed(collapsedByFileKey, k)
  /\ (lastOp.op = "expandAll" /\ Len(lastOp.batchKeys) > 10)
       => \E i \in 1..Len(expandTimers) :
            expandTimers[i] = ExpandTimer(lastOp.batchKeys, 1, FALSE)
  /\ (lastOp.op = "expandBatch" /\ lastOp.batch * 5 >= Len(lastOp.batchKeys))
       => \A i \in 1..Len(lastOp.batchKeys) : ~IsCollapsed(collapsedByFileKey, lastOp.batchKeys[i])

\* C20: with more than 10 files no step of an expansion changes the collapsed
\* state of more than 5 files, the next batch waits for a callback of its
\* own, and with no collapse operation in between the expansion ends with
\* every file of its list expanded; with 10 files or fewer expandAll expands
\* them all in one step.
C20_ExpandIncremental ==
  /\ []ExpandedWhenDone
  /\ [][ExpandStepIsOneBatch]_vars
  /\ (Len(expandTimers) > 0) ~> (Len(expandTimers) = 0)

\* expandAll on more than ten collapsed files: the first batch is expanded,
\* the sixth file is still collapsed and the next batch is waiting
C20_Witness ==
  /\ lastOp.op = "expandAll"
  /\ Len(fileDiffs) > 10
  /\ ~IsCollapsed(collapsedByFileKey, fileDiffs[1].key)
  /\ IsCollapsed(collapsedByFileKey, fileDiffs[6].key)
  /\ \E i \in 1..Len(expandTimers) : ~expandTimers[i].auto /\ expandTimers[i].currentBatch = 1

\* ---------------------------------------------------------------------------
\* SpecCollapse: collapseAll and markAllViewed at any moment of the batched
\* expansions of SpecExpand's files
\* ---------------------------------------------------------------------------

NextCollapse ==
  \/ MountEffects
  \/ /\ lastOp.op # "firstRender"
     /\ \/ expandAll
        \/ ExpandBatchStep
        \/ collapseAll
        \/ markAllViewed

SpecCollapse == InitExpand /\ [][NextCollapse]_vars

\* the user action that ran last (the callbacks of an expansion are none)
LastUserOp == IF lastOp.op = "expandBatch" THEN lastOp.userOp ELSE lastOp.op

\* C26: after collapseAll or markAllViewed every file of the list is collapsed
\* and stays so until the next user action, whatever expansion was under way.
C26_CollapseIsFinal ==
  LastUserOp \in {"collapseAll", "markAllViewed"}
    => \A k \in Keys(fileDiffs) : IsCollapsed(collapsedByFileKey, k)

\* ---------------------------------------------------------------------------
\* SpecTerminals: the tabs of the terminal sidebar (part_004). A handler runs
\* in a click and reads the refs of the last render; the render that its
\* updates cause, and the auto-create effect of that render, follow in the
\* same step.
\* ---------------------------------------------------------------------------

MaxTerminals == 4

\* the value of the two atoms
TerminalAtoms(terminals, activeIds) == [terminals |-> terminals, activeIds |-> activeIds]

TerminalIdsOf(terminals) == {terminals[i] : i \in 1..Len(terminals)}

\* the n-th id that crypto.randomUUID gives (no two calls give the same one)
generateTerminalId(n) == "t" \o NatToString(n)

\* newTerminals[newTerminals.length - 1]?.id || null
LastTerminalOrNull(terminals) ==
  IF Len(terminals) = 0 THEN NullTerminal ELSE terminals[Len(terminals)]

createTerminal(prev, currentChatId, id) ==
  TerminalAtoms([prev.terminals EXCEPT ![currentChatId] = Append(@, id)],
                [prev.activeIds EXCEPT ![currentChatId] = id])

selectTerminal(prev, currentChatId, id) ==
  TerminalAtoms(prev.terminals, [prev.activeIds EXCEPT ![currentChatId] = id])

closeTerminalKeepActive(prev, currentChatId, currentTerminals, currentActiveId, id) ==
  IF id \notin TerminalIdsOf(currentTerminals) THEN prev
  ELSE TerminalAtoms([prev.terminals EXCEPT
                        ![currentChatId] = SelectSeq(currentTerminals, LAMBDA t : t # id)],
                     prev.activeIds)

closeTerminal(prev, currentChatId, currentTerminals, currentActiveId, id) ==
  IF id \notin TerminalIdsOf(currentTerminals) THEN prev
  ELSE LET newTerminals == SelectSeq(currentTerminals, LAMBDA t : t # id)
       IN  TerminalAtoms([prev.terminals EXCEPT ![currentChatId] = newTerminals],
                         IF currentActiveId = id
                           THEN [prev.activeIds EXCEPT ![currentChatId] = LastTerminalOrNull(newTerminals)]
                           ELSE prev.activeIds)

closeOtherTerminals(prev, currentChatId, currentTerminals, id) ==
  TerminalAtoms([prev.terminals EXCEPT
                   ![currentChatId] = IF id \in TerminalIdsOf(currentTerminals) THEN <<id>> ELSE <<>>],
                [prev.activeIds EXCEPT ![currentChatId] = id])

\* currentTerminals.findIndex((t) => t.id === id), counted from 1 (0: none)
TerminalIndex(currentTerminals, id) ==
  IF id \in TerminalIdsOf(currentTerminals)
    THEN CHOOSE i \in 1..Len(currentTerminals) :
           /\ currentTerminals[i] = id
           /\ \A j \in 1..(i - 1) : currentTerminals[j] # id
    ELSE 0

closeTerminalsToRight(prev, currentChatId, currentTerminals, currentActiveId, id) ==
  LET index == TerminalIndex(currentTerminals, id)
      remainingTerminals == SubSeq(currentTerminals, 1, index)
  IN  IF index = 0 THEN prev
      ELSE TerminalAtoms([prev.terminals EXCEPT ![currentChatId] = remainingTerminals],
                         IF /\ currentActiveId # NullTerminal
                            /\ currentActiveId \notin TerminalIdsOf(remainingTerminals)
                           THEN [prev.activeIds EXCEPT
                                   ![currentChatId] = LastTerminalOrNull(remainingTerminals)]
                           ELSE prev.activeIds)

\* the render of TerminalSidebar for chat c with the atoms at, and its
\* auto-create effect: createTerminal when the sidebar is open and the chat
\* has no terminal, then the render of the terminal it made
TerminalRender(c, open, at, killed, n) ==
  LET create == open[c] /\ Len(at.terminals[c]) = 0
      at2    == IF create THEN createTerminal(at, c, generateTerminalId(n + 1)) ELSE at
  IN  /\ create => n < MaxTerminals
      /\ allTerminals' = at2.terminals
      /\ allActiveIds' = at2.activeIds
      /\ isOpen' = open
      /\ chatIdRef' = c
      /\ terminalsRef' = at2.terminals[c]
      /\ activeTerminalIdRef' = at2.activeIds[c]
      /\ killedTerminals' = killed
      /\ generatedIds' = IF create THEN n + 1 ELSE n
      /\ UNCHANGED <<viewVars, propVars, subChatVars, cmpVars, splitVars, sizeVars>>

CurrentAtoms == TerminalAtoms(allTerminals, allActiveIds)

\* the "+" button of the tab bar
CreateTerminal ==
  /\ generatedIds < MaxTerminals
  /\ TerminalRender(chatIdRef, isOpen,
                    createTerminal(CurrentAtoms, chatIdRef, generateTerminalId(generatedIds + 1)),
                    killedTerminals, generatedIds + 1)

\* a click on the tab of terminal id
SelectTerminal(id) ==
  TerminalRender(chatIdRef, isOpen, selectTerminal(CurrentAtoms, chatIdRef, id),
                 killedTerminals, generatedIds)

\* the close button of the tab: killMutation for the terminal, if it is found
CloseTerminal(id) ==
  TerminalRender(chatIdRef, isOpen,
                 closeTerminal(CurrentAtoms, chatIdRef, terminalsRef, activeTerminalIdRef, id),
                 killedTerminals \cup ({id} \cap TerminalIdsOf(terminalsRef)), generatedIds)

\* "Close others" of the tab's menu: killMutation for every other terminal
CloseOtherTerminals(id) ==
  TerminalRender(chatIdRef, isOpen,
                 closeOtherTerminals(CurrentAtoms, chatIdRef, terminalsRef, id),
                 killedTerminals \cup (TerminalIdsOf(terminalsRef) \ {id}), generatedIds)

\* "Close to the right": killMutation for the terminals after the tab
CloseTerminalsToRight(id) ==
  LET index == TerminalIndex(terminalsRef, id)
  IN  TerminalRender(chatIdRef, isOpen,
                     closeTerminalsToRight(CurrentAtoms, chatIdRef, terminalsRef,
                                           activeTerminalIdRef, id),
                     killedTerminals \cup
                       (IF index = 0 THEN {}
                        ELSE TerminalIdsOf(SubSeq(terminalsRef, index + 1, Len(terminalsRef)))),
                     generatedIds)

\* the sidebar of the chat shown is opened or closed (closeSidebar, the hotkey)
SetIsOpen(b) ==
  /\ isOpen[chatIdRef] # b
  /\ TerminalRender(chatIdRef, [isOpen EXCEPT ![chatIdRef] = b], CurrentAtoms,
                    killedTerminals, generatedIds)

\* the chatId prop changes
SetTerminalChat(c) ==
  /\ c # chatIdRef
  /\ TerminalRender(c, isOpen, CurrentAtoms, killedTerminals, generatedIds)

NextTerminals ==
  \/ CreateTerminal
  \/ \E id \in TerminalIdsOf(terminalsRef) : SelectTerminal(id)
  \/ \E id \in TerminalIdsOf(terminalsRef) : CloseTerminal(id)
  \/ \E id \in TerminalIdsOf(terminalsRef) : CloseOtherTerminals(id)
  \/ \E id \in TerminalIdsOf(terminalsRef) : CloseTerminalsToRight(id)
  \/ \E b \in BOOLEAN : SetIsOpen(b)
  \/ \E c \in ChatIds : SetTerminalChat(c)

SpecTerminals == Init /\ [][NextTerminals]_vars

\* C28: after any sequence of createTerminal, selectTerminal, closeTerminal,
\* closeOtherTerminals and closeTerminalsToRight on tabs of the last render,
\* every chat's active terminal id is null or the id of a terminal of the
\* chat's list, and no terminal that was closed is in a list.
C28_ActiveTerminalIsListed ==
  \A c \in ChatIds :
    /\ allActiveIds[c] \in TerminalIdsOf(allTerminals[c]) \cup {NullTerminal}
    /\ TerminalIdsOf(allTerminals[c]) \cap killedTerminals = {}

\* the active terminal of a chat with two tabs left was closed, and the last
\* remaining tab became the active one
C28_Witness ==
  /\ killedTerminals # {}
  /\ Len(allTerminals["c1"]) = 2
  /\ allActiveIds["c1"] = allTerminals["c1"][2]
  /\ allActiveIds["c1"] # generateTerminalId(generatedIds)
  /\ Len(allTerminals["c2"]) > 0

\* ---------------------------------------------------------------------------
\* SpecTabs: the tabs of chat c1 with every action of the sub-chat store
\* ---------------------------------------------------------------------------

\* the lists setOpenSubChats is called with
OpenLists == {<<>>, <<"s2", "s1">>, <<"s1", "s2", "s1">>}

NextTabs ==
  \/ setChatId("c1")
  \/ setChatIdNull
  \/ \E x \in SubChatIds : setActiveSubChat(x)
  \/ \E ids \in OpenLists : setOpenSubChats(ids)
  \/ \E x \in SubChatIds : addToOpenSubChats(x)
  \/ \E x \in SubChatIds : removeFromOpenSubChats(x)
  \/ togglePinSubChat("s1")
  \/ \E x \in SubChatIds : CacheTaskSnapshot(x)

SpecTabs == Init /\ [][NextTabs]_vars

\* C29: after removeFromOpenSubChats(x), x is no open tab and not the active
\* one; the active tab is the last remaining open tab (null when none remains)
\* if x was active and is unchanged otherwise; the remaining open tabs keep
\* their order, the pinned list is unchanged, and the task snapshot cache has
\* no entry for x.
C29_RemoveFromOpenSubChats ==
  lastOp.op = "removeFromOpenSubChats" =>
    LET x      == lastOp.fileKey
        before == lastOp.storeBefore.store
        open   == subChatStore.openSubChatIds
    IN  /\ \A i \in 1..Len(open) : open[i] # x
        /\ subChatStore.activeSubChatId # Str(x)
        /\ before.activeSubChatId = Str(x) =>
             subChatStore.activeSubChatId =
               (IF Len(open) = 0 THEN NullStr ELSE Str(open[Len(open)]))
        /\ before.activeSubChatId # Str(x) =>
             subChatStore.activeSubChatId = before.activeSubChatId
        /\ open = SelectSeq(before.openSubChatIds, LAMBDA y : y # x)
        /\ subChatStore.pinnedSubChatIds = before.pinnedSubChatIds
        /\ x \notin snapshotHistoryCache

\* the active tab, pinned and with a cached snapshot, was closed while another
\* tab was open
C29_Witness ==
  /\ lastOp.op = "removeFromOpenSubChats"
  /\ lastOp.storeBefore.store.activeSubChatId = Str(lastOp.fileKey)
  /\ lastOp.fileKey \in lastOp.storeBefore.cache
  /\ Len(subChatStore.openSubChatIds) > 0
  /\ Len(subChatStore.pinnedSubChatIds) > 0

\* ---------------------------------------------------------------------------
\* SpecPersist: the sub-chat store switching between two chats, the storage
\* holding at first nothing or the open tabs that an earlier version saved
\* for chat c1 under the legacy key
\* ---------------------------------------------------------------------------

LegacyStorage == Put(<<>>, getLegacyStorageKey("c1", "open"), StringifyArray(<<"s2">>))

InitPersist ==
  /\ InitView(ViewPrefetched) /\ InitCmp
  /\ subChatStore = [chatId |-> NullStr, activeSubChatId |-> NullStr,
                     openSubChatIds |-> <<>>, pinnedSubChatIds |-> <<>>, allSubChats |-> <<>>]
  /\ localStorage \in {<<>>, LegacyStorage}
  /\ snapshotHistoryCache = {}

\* the five actions on tab s1 while a chat is set
NextPersist ==
  \/ \E c \in ChatIds : setChatId(c)
  \/ reset
  \/ /\ ~subChatStore.chatId.isNull
     /\ \/ setActiveSubChat("s1")
        \/ setOpenSubChats(<<"s2", "s1">>)
        \/ addToOpenSubChats("s1")
        \/ removeFromOpenSubChats("s1")
        \/ togglePinSubChat("s1")

SpecPersist == InitPersist /\ [][NextPersist]_vars

\* what setChatId(c) would load from the storage ls
LoadedTabs(ls, c) ==
  {[open   |-> IF open.found THEN ParseArray(open.text) ELSE <<>>,
    active |-> IF active.found THEN ParseNullable(active.text) ELSE NullStr,
    pinned |-> IF pinned.found THEN ParseArray(pinned.text) ELSE <<>>] :
     open \in loadFromLS(ls, c, "open"), active \in loadFromLS(ls, c, "active"),
     pinned \in loadFromLS(ls, c, "pinned")}

MemoryTabs ==
  [open |-> subChatStore.openSubChatIds, active |-> subChatStore.activeSubChatId,
   pinned |-> subChatStore.pinnedSubChatIds]

\* C30: while a chat c is set, what the storage holds for c is the open,
\* active and pinned values of the store, after every store action; and no
\* step taken while another chat (or none) is set changes what the storage
\* holds for c, so that setChatId(c) restores the values c had.
C30_PersistedTabs ==
  /\ [](~subChatStore.chatId.isNull =>
          LoadedTabs(localStorage, subChatStore.chatId.str) = {MemoryTabs})
  /\ [][\A c \in ChatIds :
          subChatStore.chatId # Str(c) =>
            LoadedTabs(localStorage', c) = LoadedTabs(localStorage, c)]_vars

\* setChatId("c1") has restored an open, active and pinned tab of c1 while the
\* storage holds other tabs for c2
C30_Witness ==
  /\ lastOp.op = "setChatId"
  /\ subChatStore.chatId = Str("c1")
  /\ subChatStore.openSubChatIds = <<"s2", "s1">>
  /\ subChatStore.activeSubChatId = Str("s1")
  /\ subChatStore.pinnedSubChatIds = <<"s1">>
  /\ LoadedTabs(localStorage, "c2") =
       {[open |-> <<"s2">>, active |-> Str("s2"), pinned |-> <<>>]}

====
